---------------------------- MODULE Spec2Model ----------------------------
(***************************************************************************)
(* Particle scene of the mood visualiser (components/ParticleScene.tsx in  *)
(* its two versions, App.tsx, services/audioEngine, geminiService).        *)
(*                                                                         *)
(* Numbers.  JavaScript numbers are modelled in fixed point: the integer n *)
(* stands for n / Scale.  A product or quotient is truncated toward zero   *)
(* (MulDiv), so rounding never increases a magnitude.  Angles are in       *)
(* 1/Scale radians.  Math.random() is an input drawn from RandVals.        *)
(***************************************************************************)
EXTENDS Integers, Sequences, FiniteSets, TLC

(***************************************************************************)
(* Bounds of the model.                                                    *)
(***************************************************************************)
Count == 2          \* particles in the scene (the code creates 4000 / 1500)
MaxFrames == 2      \* frame callbacks in one behaviour
MaxFresh == 2       \* pointer updates between two frame callbacks

\* frames of the end-to-end run of the quiet sphere
SettleFrames == 500

MaxGenerations == 2    \* generation requests in one behaviour
MaxLoops == 3          \* scheduler loops play() starts in one behaviour

(***************************************************************************)
(* Fixed-point arithmetic                                                  *)
(***************************************************************************)
Scale == 1000
Pi == 3142          \* Math.PI
HalfPi == Pi \div 2
TwoPi == 6283

\* the value of F at v, with v computed once (as a const declaration does)
Bind(v, F(_)) == CHOOSE r \in {F(x) : x \in {v}} : TRUE

Abs(x) == Bind(x, LAMBDA v : IF v < 0 THEN -v ELSE v)

\* a * n / d on JavaScript numbers, truncated toward zero (d > 0)
MulDiv(a, n, d) ==
    Bind(a * n, LAMBDA p : IF p >= 0 THEN p \div d ELSE -((-p) \div d))

\* product of two fixed-point numbers
FMul(a, b) == MulDiv(a, b, Scale)

\* sine on the first quadrant, 0 <= x <= HalfPi: odd Taylor polynomial to x^7
SinQ(x) ==
    Bind(FMul(x, x), LAMBDA x2 :
    Bind(FMul(x2, x), LAMBDA x3 :
    Bind(FMul(x3, x2), LAMBDA x5 :
    Bind(FMul(x5, x2), LAMBDA x7 :
        x - (x3 \div 6) + (x5 \div 120) - (x7 \div 5040)))))

\* Math.sin
Sin(x) ==
    Bind(x % TwoPi, LAMBDA r :
    Bind(IF r <= HalfPi THEN SinQ(r)
         ELSE IF r <= Pi THEN SinQ(Pi - r)
         ELSE IF r <= Pi + HalfPi THEN -SinQ(r - Pi)
         ELSE -SinQ(TwoPi - r), LAMBDA s :
        IF s > Scale THEN Scale ELSE IF s < -Scale THEN -Scale ELSE s))

\* Math.cos
Cos(x) == Sin(x + HalfPi)

\* floor of the square root of a natural number, by bisection on [lo, hi)
RECURSIVE ISqrtIn(_, _, _)
ISqrtIn(n, lo, hi) ==
    IF hi - lo <= 1 THEN lo
    ELSE Bind((lo + hi) \div 2, LAMBDA mid :
             IF mid * mid <= n THEN ISqrtIn(n, mid, hi) ELSE ISqrtIn(n, lo, mid))

ISqrt(n) == Bind(n, LAMBDA v : ISqrtIn(v, 0, 46341))

\* Math.sqrt of a fixed-point number
Sqrt(v) ==
    Bind(v, LAMBDA w : IF w < 2000000 THEN ISqrt(w * Scale) ELSE ISqrt(w \div 10) * 100)

\* Math.acos on [-1, 1]: the angle in [0, Pi] whose cosine is c, by bisection
\* (the cosine decreases on [0, Pi])
RECURSIVE AcosIn(_, _, _)
AcosIn(c, lo, hi) ==
    IF hi - lo <= 1 THEN (IF Cos(hi) >= c THEN hi ELSE lo)
    ELSE Bind((lo + hi) \div 2, LAMBDA mid :
             IF Cos(mid) >= c THEN AcosIn(c, mid, hi) ELSE AcosIn(c, lo, mid))

Acos(c) == Bind(c, LAMBDA v : AcosIn(v, 0, Pi))

\* y^n in fixed point
RECURSIVE FPow(_, _)
FPow(y, n) ==
    IF n = 0 THEN Scale ELSE Bind(FPow(y, n - 1), LAMBDA q : FMul(y, q))

\* Math.pow(r, 0.3) for 0 <= r < 1: the least y with y^10 >= r^3
RECURSIVE Pow03In(_, _, _)
Pow03In(r3, lo, hi) ==
    IF lo >= hi THEN lo
    ELSE Bind((lo + hi) \div 2, LAMBDA mid :
             IF FPow(mid, 10) >= r3 THEN Pow03In(r3, lo, mid)
             ELSE Bind(mid + 1, LAMBDA up : Pow03In(r3, up, hi)))

Pow03(r) == Bind(FPow(r, 3), LAMBDA r3 : Pow03In(r3, 0, Scale))

(***************************************************************************)
(* Vectors                                                                 *)
(***************************************************************************)
Vec(a, b, c) == [x |-> a, y |-> b, z |-> c]
Zero3 == Vec(0, 0, 0)

\* THREE.Vector3.setFromSphericalCoords(radius, phi, theta)
SetFromSphericalCoords(r, phi, theta) ==
    Bind(phi, LAMBDA ph :
    Bind(theta, LAMBDA th :
    Bind(FMul(Sin(ph), r), LAMBDA sinPhiRadius :
        Vec(FMul(sinPhiRadius, Sin(th)),
            FMul(Cos(ph), r),
            FMul(sinPhiRadius, Cos(th))))))

(***************************************************************************)
(* Shape targets                                                           *)
(***************************************************************************)
ShapeLiterals == {"sphere", "cat", "flower", "fish", "star"}

\* One particle's Math.random() draws of one frame, in call order:
\* d[1..3] inside getTargetPosition, d[4..7] inside the pointer interaction.
RandVals == {0, 500, 999}

\* i / count
Ratio(i, count) == MulDiv(i, Scale, count)

\* const phi = Math.acos(-1 + (2 * i) / count)
Phi(i, count) == Acos(MulDiv(2 * i, Scale, count) - Scale)

\* const theta = Math.sqrt(count * Math.PI) * phi
Theta(i, count) == FMul(Sqrt(count * Pi), Phi(i, count))

\* case 'cat': head, body, left ear, right ear by ratio
CatTarget(i, count, d) ==
    Bind(Ratio(i, count), LAMBDA ratio :
        IF ratio < 350 THEN
            Bind(SetFromSphericalCoords(3000, Phi(i, count) * 2, Theta(i, count)),
                 LAMBDA p : [p EXCEPT !.y = @ + 3500])
        ELSE IF ratio < 850 THEN
            Bind(SetFromSphericalCoords(4500, Phi(i, count), Theta(i, count)),
                 LAMBDA p : [p EXCEPT !.y = @ - 2500])
        ELSE IF ratio < 920 THEN
            Vec(-2000 + d[1], 6000 + d[2] * 2, d[3])
        ELSE
            Vec(2000 + d[1], 6000 + d[2] * 2, d[3]))

\* case 'flower': rose curve with random radius and depth
FlowerTarget(i, count, d) ==
    Bind(Theta(i, count), LAMBDA theta :
    Bind(8 * Abs(Cos(3 * theta)), LAMBDA flowerR :
    Bind(FMul(d[1], flowerR) + 2000, LAMBDA r :
    Bind(Sin(r) * 2, LAMBDA z :
        Vec(FMul(r, Cos(theta)), FMul(r, Sin(theta)), z + (d[2] - 500) * 2)))))

\* case 'fish': ellipsoid body along x, tail beyond |x| = 7
FishTarget(i, count, d) ==
    Bind((Ratio(i, count) - 500) * 15, LAMBDA fishL :
        IF Abs(fishL) < 7000 THEN
            Bind(Cos(MulDiv(fishL, 2, 10)) * 4, LAMBDA width :
            Bind(Cos(MulDiv(fishL, 2, 10)) * 5, LAMBDA height :
            Bind(FMul(d[1], TwoPi), LAMBDA angle :
            Bind(d[2], LAMBDA rad :
                Vec(fishL,
                    FMul(FMul(Cos(angle), height), rad),
                    FMul(FMul(Sin(angle), width), rad))))))
        ELSE
            Vec(fishL - 2000, (d[1] - 500) * 8, (d[2] - 500) * 2))

\* a star whose spikes are twice as long as the other rays
StarTargetLongSpike(i, count, d) ==
    Bind(Pow03(d[1]) * 12, LAMBDA starR :
    Bind(SetFromSphericalCoords(starR, Phi(i, count), Theta(i, count)), LAMBDA p :
        IF i % 20 = 0
        THEN Vec(p.x * 2, p.y * 2, p.z * 2)
        ELSE p))

\* case 'star': random radius biased outward, every 20th index a spike
StarTarget(i, count, d) ==
    Bind(Pow03(d[1]) * 12, LAMBDA starR :
    Bind(SetFromSphericalCoords(starR, Phi(i, count), Theta(i, count)), LAMBDA p :
        IF i % 20 = 0
        THEN Vec(MulDiv(p.x, 15, 10), MulDiv(p.y, 15, 10), MulDiv(p.z, 15, 10))
        ELSE p))

\* case 'sphere' and default: Fibonacci spiral on the sphere of radius 10
SphereTarget(i, count) ==
    SetFromSphericalCoords(10000, Phi(i, count), Theta(i, count))

\* a target with no default branch: a shape outside the literals gets the
\* fresh vector
GetTargetPositionNoDefault(i, count, shape, d) ==
    CASE shape = "cat"    -> CatTarget(i, count, d)
      [] shape = "flower" -> FlowerTarget(i, count, d)
      [] shape = "fish"   -> FishTarget(i, count, d)
      [] shape = "star"   -> StarTarget(i, count, d)
      [] shape = "sphere" -> SphereTarget(i, count)
      [] OTHER            -> Zero3

\* getTargetPosition(i, count, shape) with its random draws d
GetTargetPosition(i, count, shape, d) ==
    CASE shape = "cat"    -> CatTarget(i, count, d)
      [] shape = "flower" -> FlowerTarget(i, count, d)
      [] shape = "fish"   -> FishTarget(i, count, d)
      [] shape = "star"   -> StarTarget(i, count, d)
      [] OTHER            -> SphereTarget(i, count)

(***************************************************************************)
(* Inputs                                                                  *)
(***************************************************************************)
\* The two versions of the scene: components/ParticleScene.tsx ("classic")
\* and its later revision with hand velocity and looser friction ("fluid").
Variants == {"classic", "fluid"}

\* Math.random() sequences handed to one particle in one frame
Tapes == <<
    <<0, 0, 0, 0, 0, 0, 0>>,
    <<999, 500, 999, 950, 999, 0, 500>>,
    <<500, 999, 0, 500, 0, 999, 999>> >>

Seeds == 0 .. (Len(Tapes) - 1)

\* the draws of particle i in a frame whose random source is in state seed
TapeOf(seed, i) == Tapes[((seed + i) % Len(Tapes)) + 1]

Null == [null |-> TRUE]

\* analyser.fftSize
FftSize == 256

\* the engine's analyser after init()
Analyser == [fftSize |-> FftSize]

\* magnitudes the analyser measures, one byte per bin it could report
Silence == [k \in 1..FftSize |-> 0]
BassyLevels == [k \in 1..FftSize |-> IF k <= 16 THEN 204 ELSE 51]
LoudLevels == [k \in 1..FftSize |-> 255]

\* a getFrequencyData that reports the levels whether or not init() has run
getFrequencyDataAlways(analyser, levels) ==
    [k \in 1..(FftSize \div 2) |-> levels[k]]

\* AudioEngine.getFrequencyData(): an empty array while there is no
\* analyser, else frequencyBinCount = fftSize / 2 magnitude bytes
getFrequencyData(analyser, levels) ==
    IF analyser = Null THEN << >>
    ELSE [k \in 1..(analyser.fftSize \div 2) |-> levels[k]]

NoSpectrum == getFrequencyData(Null, Silence)
BassySpectrum == getFrequencyData(Analyser, BassyLevels)
LoudSpectrum == getFrequencyData(Analyser, LoudLevels)

\* what one frame callback samples from its environment: the audio engine
\* as it is then, the clock, the state of the random source
FrameInputs == {
    [analyser |-> Null,     levels |-> LoudLevels,  time |-> 0,    seed |-> 0],
    [analyser |-> Analyser, levels |-> BassyLevels, time |-> 1300, seed |-> 1],
    [analyser |-> Analyser, levels |-> LoudLevels,  time |-> 2700, seed |-> 2] }

\* the sample of the frame whose random source is in state seed
InputOf(seed) == CHOOSE in \in FrameInputs : in.seed = seed

\* colours after new THREE.Color(hex): red, green, blue in [0, 1]
White == <<1000, 1000, 1000>>
Blue == <<0, 533, 1000>>
Grey == <<533, 533, 533>>

\* songData.visualParams as the generation service may return it: JSON.parse
\* of the model's answer, cast to SongData without validation
Song(sh, ch, sp, sz, pal) ==
    [shape |-> sh, chaos |-> ch, speed |-> sp, size |-> sz, colorPalette |-> pal]

Songs == {
    Song("sphere", 100, 500, 1000, <<White, Grey, Blue>>),   \* the fallback data
    Song("cat", 0, 1000, 500, <<Blue>>),
    Song("flower", 1500, 3000, 2500, <<White, Blue>>),       \* out of range
    Song("fish", 500, 0, 1000, <<Grey, Blue>>),
    Song("star", 1000, 2000, 100, <<Blue, White>>),
    Song("cube", 300, 500, 1000, <<Grey>>) }                 \* unknown shape

\* the songs generated in the life-cycle specification
LifeSongs == {s \in Songs : s.shape \in {"sphere", "cat", "flower"}}

\* pointer positions the hand tracker reports
Hands == {
    [x |-> 0, y |-> 0, isDetected |-> FALSE],
    [x |-> 500, y |-> -500, isDetected |-> TRUE],
    [x |-> -200, y |-> 300, isDetected |-> TRUE] }

\* Math.random() draws of one particle at creation: t, x, y, z, baseX, baseY, baseZ
InitTapes == <<
    <<500, 800, 300, 500, 500, 500, 500>>,
    <<0, 999, 0, 600, 250, 900, 100>>,
    <<200, 700, 400, 550, 600, 300, 500>> >>

\* one entry of the particles array as the useMemo initialiser builds it
NewParticle(r) ==
    [t |-> r[1] * 100,
     x |-> (r[2] - 500) * 50, y |-> (r[3] - 500) * 50, z |-> (r[4] - 500) * 50,
     baseX |-> (r[5] - 500) * 20, baseY |-> (r[6] - 500) * 20,
     baseZ |-> (r[7] - 500) * 20,
     vx |-> 0, vy |-> 0, vz |-> 0]

Indices == 0 .. (Count - 1)

InitArray(k) == [i \in Indices |-> NewParticle(InitTapes[((k + i) % Len(InitTapes)) + 1])]

InitArrays == {InitArray(0), InitArray(2)}

(***************************************************************************)
(* The frame callback, per particle                                        *)
(***************************************************************************)
\* const simpleNoise = (x, y, z) => Math.sin(x) * Math.cos(y) * Math.sin(z)
simpleNoise(a, b, c) == FMul(FMul(Sin(a), Cos(b)), Sin(c))

\* average of freqData.slice(lo, hi) as the code takes it: the sum of the
\* bytes the slice holds, divided by n and by 255
BandEnergy(freq, lo, hi, n) ==
    LET RECURSIVE Sum(_)
        Sum(k) == IF k >= hi \/ k >= Len(freq) THEN 0 ELSE freq[k + 1] + Sum(k + 1)
    IN  MulDiv(Sum(lo), Scale, n * 255)

\* Math.sqrt(dx*dx + dy*dy + dz*dz).  Beyond the interaction radius on one
\* axis the exact value is never used (only dist < radius is tested), and
\* the largest component stands for it.
Dist(dx, dy, dz) ==
    Bind(IF Abs(dx) >= Abs(dy) /\ Abs(dx) >= Abs(dz) THEN Abs(dx)
         ELSE IF Abs(dy) >= Abs(dz) THEN Abs(dy) ELSE Abs(dz), LAMBDA m :
        IF m >= 25000 THEN m ELSE ISqrt(dx * dx + dy * dy + dz * dz))

\* no friction: the velocity is kept whole
FrictionNone(variant, v) == v

\* friction applied to the velocity each frame
Friction(variant, v) ==
    IF variant = "classic" THEN MulDiv(v, 92, 100) ELSE MulDiv(v, 94, 100)

\* no pull toward the base at all
SpringNone(variant, isHandActive, gap) == 0

\* (currentTarget - position) * springStrength
Spring(variant, isHandActive, gap) ==
    IF ~isHandActive THEN MulDiv(gap, 5, 100)
    ELSE IF variant = "classic" THEN MulDiv(gap, 1, 100)
    ELSE MulDiv(gap, 5, 1000)

\* a morph that jumps: the base is set to the target
LerpSnap(base, target) == target

\* base += (target - base) * 0.03
Lerp(base, target) == base + MulDiv(target - base, 3, 100)

\* a push along the normalised displacement d / dist, 0 / 0 taken as 1
DirectionalForceNormalised(variant, shape, dx, dy, dz, dist, power) ==
    LET U(c) == IF dist = 0 THEN Scale ELSE MulDiv(c, Scale, dist)
    IN  Vec(FMul(U(dx), power), FMul(U(dy), power), FMul(U(dz), power))

\* the terms of the pointer interaction that are proportional to the
\* displacement d = position - pointer: attraction, push, vortex, suction
DirectionalForce(variant, shape, dx, dy, dz, dist, power) ==
    IF shape = "cat" /\ dist < 8000 THEN
        IF variant = "classic"
        THEN Vec(-FMul(MulDiv(dx, 5, 100), power),
                 -FMul(MulDiv(dy, 5, 100), power),
                 -FMul(MulDiv(dz, 5, 100), power))
        ELSE Vec(-FMul(MulDiv(dx, 5, 100), power),
                 -FMul(MulDiv(dy, 5, 100), power),
                 0)
    ELSE IF shape = "flower" THEN
        Vec(FMul(MulDiv(dx, 1, 10), power), FMul(MulDiv(dy, 1, 10), power), 0)
    ELSE IF variant = "classic" THEN
        LET swirlSpeed == MulDiv(power, 8, 10)
            suction    == MulDiv(power, 5, 10)
        IN  Vec(MulDiv(FMul(-dy, swirlSpeed), 1, 10) - MulDiv(FMul(dx, suction), 1, 10),
                MulDiv(FMul(dx, swirlSpeed), 1, 10) - MulDiv(FMul(dy, suction), 1, 10),
                -MulDiv(FMul(dz, suction), 1, 10))
    ELSE
        Vec(FMul(MulDiv(-dy, 5, 100), power) - FMul(MulDiv(dx, 2, 100), power),
            FMul(MulDiv(dx, 5, 100), power) - FMul(MulDiv(dy, 2, 100), power),
            -FMul(MulDiv(dz, 2, 100), power))

\* the other terms of the pointer interaction: purr jitter and sparkles
\* (random), drag along the hand velocity and the flower's wind (fluid)
OtherForce(variant, shape, dist, influence, power, handVx, handVy, time, d) ==
    LET drag == IF variant = "fluid"
                THEN Vec(MulDiv(FMul(handVx, influence), 2, 10),
                         MulDiv(FMul(handVy, influence), 2, 10), 0)
                ELSE Zero3
        rest ==
          IF shape = "cat" /\ dist < 8000 THEN
              IF variant = "classic"
              THEN Vec(FMul(MulDiv(d[4] - 500, 5, 10), power), 0, 0)
              ELSE Vec(FMul(d[4] - 500, power), FMul(d[5] - 500, power), 0)
          ELSE IF shape = "flower" THEN
              IF variant = "classic" THEN Zero3
              ELSE Vec(0, 0, FMul(MulDiv(Sin(time * 5 + dist), 1, 10), power))
          ELSE IF variant = "fluid" /\ d[4] > 900 THEN
              Vec(FMul(MulDiv(d[5] - 500, 5, 10), power),
                  FMul(MulDiv(d[6] - 500, 5, 10), power),
                  FMul(MulDiv(d[7] - 500, 5, 10), power))
          ELSE Zero3
    IN  Vec(drag.x + rest.x, drag.y + rest.y, drag.z + rest.z)

\* a noise with the same amplitude for every shape
NoiseUnshaped(vp, base, t) ==
    LET noiseScale == vp.chaos
        bx == MulDiv(base.x, 1, 10)
        by == MulDiv(base.y, 1, 10)
        bz == MulDiv(base.z, 1, 10)
    IN  Vec(FMul(simpleNoise(t, bz, bx), noiseScale) * 5,
            FMul(simpleNoise(by, t, bz), noiseScale) * 5,
            FMul(simpleNoise(bz, bx, t), noiseScale) * 5)

\* the ambient noise added to the base: noiseX, noiseY, noiseZ
Noise(vp, base, t) ==
    LET scale0 == vp.chaos
        scale1 == IF vp.shape = "cat" THEN MulDiv(scale0, 5, 10) ELSE scale0
        noiseScale == IF vp.shape = "fish" THEN MulDiv(scale1, 15, 10) ELSE scale1
        bx == MulDiv(base.x, 1, 10)
        by == MulDiv(base.y, 1, 10)
        bz == MulDiv(base.z, 1, 10)
    IN  Vec(FMul(simpleNoise(t, bz, bx), noiseScale) * 5,
            FMul(simpleNoise(by, t, bz), noiseScale) * 5,
            FMul(simpleNoise(bz, bx, t), noiseScale) * 5)

\* an interaction without the radius test: every particle is in reach of a
\* detected pointer
InteractionNoRadius(variant, shape, env, particle, d) ==
    Bind(particle.x - env.handX, LAMBDA dx :
    Bind(particle.y - env.handY, LAMBDA dy :
    Bind(particle.z - 0, LAMBDA dz :
    Bind(Dist(dx, dy, dz), LAMBDA dist :
    Bind(env.isHandActive, LAMBDA inRange :
    Bind(Scale - MulDiv(dist, Scale, 25000), LAMBDA influence :
    Bind(FMul(influence, influence), LAMBDA power :
        [dist    |-> dist,
         inRange |-> inRange,
         power   |-> IF inRange THEN power ELSE 0,
         dir     |-> IF inRange
                     THEN DirectionalForce(variant, shape, dx, dy, dz, dist, power)
                     ELSE Zero3,
         other   |-> IF inRange
                     THEN OtherForce(variant, shape, dist, influence, power,
                                     env.handVx, env.handVy, env.time, d)
                     ELSE Zero3])))))))

\* the pointer interaction of one particle: its distance to the pointer,
\* whether it is in reach, and the velocity terms it receives
Interaction(variant, shape, env, particle, d) ==
    Bind(particle.x - env.handX, LAMBDA dx :
    Bind(particle.y - env.handY, LAMBDA dy :
    Bind(particle.z - 0, LAMBDA dz :
    Bind(Dist(dx, dy, dz), LAMBDA dist :
    Bind(env.isHandActive /\ dist < 25000, LAMBDA inRange :
    Bind(Scale - MulDiv(dist, Scale, 25000), LAMBDA influence :
    Bind(FMul(influence, influence), LAMBDA power :
        [dist    |-> dist,
         inRange |-> inRange,
         power   |-> IF inRange THEN power ELSE 0,
         dir     |-> IF inRange
                     THEN DirectionalForce(variant, shape, dx, dy, dz, dist, power)
                     ELSE Zero3,
         other   |-> IF inRange
                     THEN OtherForce(variant, shape, dist, influence, power,
                                     env.handVx, env.handVy, env.time, d)
                     ELSE Zero3])))))))

\* the spring added before the friction, so that it is damped too
VelocitySpringFirst(variant, env, particle, base, noise, f) ==
    Vec(Friction(variant, particle.vx + f.dir.x + f.other.x
                   + Spring(variant, env.isHandActive, base.x + noise.x - particle.x)),
        Friction(variant, particle.vy + f.dir.y + f.other.y
                   + Spring(variant, env.isHandActive, base.y + noise.y - particle.y)),
        Friction(variant, particle.vz + f.dir.z + f.other.z
                   + Spring(variant, env.isHandActive, base.z + noise.z - particle.z)))

\* friction on the velocity the interaction left, then the spring toward
\* the current target (base + noise)
Velocity(variant, env, particle, base, noise, f) ==
    Vec(Friction(variant, particle.vx + f.dir.x + f.other.x)
          + Spring(variant, env.isHandActive, base.x + noise.x - particle.x),
        Friction(variant, particle.vy + f.dir.y + f.other.y)
          + Spring(variant, env.isHandActive, base.y + noise.y - particle.y),
        Friction(variant, particle.vz + f.dir.z + f.other.z)
          + Spring(variant, env.isHandActive, base.z + noise.z - particle.z))

\* size * audioScale * 0.2
FinalScale(vp, env, t) ==
    Bind(MulDiv(Sin(t * 10) + Scale, 5, 10), LAMBDA sFactor :
    Bind(Scale + env.bass * 3 + FMul(env.treble, sFactor) * 2, LAMBDA audioScale :
        MulDiv(FMul(vp.size, audioScale), 2, 10)))

\* dummy.rotation.x += particle.vy * 0.1; dummy.rotation.y += particle.vx * 0.1
\* (0.2 in the fluid version).  The rotation is kept in units of 0.0001 rad,
\* in which vy * 0.1 is vy.
Rotate(variant, rotation, v) ==
    LET k == IF variant = "classic" THEN 1 ELSE 2
    IN  Vec(rotation.x + v.y * k, rotation.y + v.x * k, rotation.z)

\* The body of particles.forEach((particle, i) => ...) for one particle.
\* vp is songData.visualParams, env what the callback computed before the
\* loop, dummy the shared THREE.Object3D, d the particle's random draws.
\* Yields the particle and the dummy as the body leaves them, the matrix
\* given to setMatrixAt(i, ...), and the body's local values.
ParticleStep(variant, vp, env, particle, i, dummy, d) ==
    Bind(GetTargetPosition(i, Count, vp.shape, d), LAMBDA target :
    Bind(Vec(Lerp(particle.baseX, target.x),
             Lerp(particle.baseY, target.y),
             Lerp(particle.baseZ, target.z)), LAMBDA base :
    Bind(FMul(vp.speed, 5 + MulDiv(env.bass, 5, 100)), LAMBDA advance :
    Bind(particle.t + advance, LAMBDA t :
    Bind(Noise(vp, base, t), LAMBDA noise :
    Bind(Interaction(variant, vp.shape, env, particle, d), LAMBDA f :
    Bind(Velocity(variant, env, particle, base, noise, f), LAMBDA v :
    Bind(Vec(particle.x + v.x, particle.y + v.y, particle.z + v.z), LAMBDA pos :
    Bind(FinalScale(vp, env, t), LAMBDA finalScale :
    Bind([position |-> pos,
          scale    |-> Vec(finalScale, finalScale, finalScale),
          rotation |-> Rotate(variant, dummy.rotation, v)], LAMBDA newDummy :
        [particle |-> [t |-> t, x |-> pos.x, y |-> pos.y, z |-> pos.z,
                       baseX |-> base.x, baseY |-> base.y, baseZ |-> base.z,
                       vx |-> v.x, vy |-> v.y, vz |-> v.z],
         dummy    |-> newDummy,
         matrix   |-> newDummy,
         loc      |-> [target |-> target,
                       base0 |-> Vec(particle.baseX, particle.baseY, particle.baseZ),
                       pos0 |-> Vec(particle.x, particle.y, particle.z),
                       vel0 |-> Vec(particle.vx, particle.vy, particle.vz),
                       advance |-> advance,
                       noise |-> noise,
                       dist |-> f.dist, inRange |-> f.inRange,
                       power |-> f.power,
                       dir |-> f.dir, other |-> f.other,
                       finalScale |-> finalScale]]))))))))))

\* a loop whose body starts particle i from its neighbour's position
RECURSIVE ForEachLeak(_, _, _, _, _)
ForEachLeak(variant, vp, env, seed, acc) ==
    IF Len(acc.done) = Count THEN acc
    ELSE Bind(Len(acc.done), LAMBDA i :
         Bind(ParticleStep(variant, vp, env,
                           [acc.particles[i] EXCEPT
                               !.x = acc.particles[(i + 1) % Count].x],
                           i, acc.dummy, TapeOf(seed, i)), LAMBDA r :
         Bind([particles |-> [acc.particles EXCEPT ![i] = r.particle],
               dummy     |-> r.dummy,
               matrices  |-> [acc.matrices EXCEPT ![i] = r.matrix],
               locs      |-> [acc.locs EXCEPT ![i] = r.loc],
               done      |-> Append(acc.done, i)], LAMBDA next :
             ForEachLeak(variant, vp, env, seed, next))))

\* particles.forEach: the particles in index order, the dummy object handed
\* from each body to the next
RECURSIVE ForEach(_, _, _, _, _)
ForEach(variant, vp, env, seed, acc) ==
    IF Len(acc.done) = Count THEN acc
    ELSE Bind(Len(acc.done), LAMBDA i :
         Bind(ParticleStep(variant, vp, env, acc.particles[i], i,
                           acc.dummy, TapeOf(seed, i)), LAMBDA r :
         Bind([particles |-> [acc.particles EXCEPT ![i] = r.particle],
               dummy     |-> r.dummy,
               matrices  |-> [acc.matrices EXCEPT ![i] = r.matrix],
               locs      |-> [acc.locs EXCEPT ![i] = r.loc],
               done      |-> Append(acc.done, i)], LAMBDA next :
             ForEach(variant, vp, env, seed, next))))

(***************************************************************************)
(* Colours                                                                 *)
(***************************************************************************)
\* THREE.Color.multiplyScalar(1.5)
Boost(c) == <<MulDiv(c[1], 15, 10), MulDiv(c[2], 15, 10), MulDiv(c[3], 15, 10)>>

\* colors[Math.floor(Math.random() * colors.length)] with the draw r
PickIndex(r, len) == ((r * len) \div Scale) + 1

\* The loop of the colour effect from particle i on: each particle takes a
\* Color object of the colors array (built once per run of the effect); the
\* fluid version brightens that object in place before copying it.
RECURSIVE AssignColors(_, _, _, _, _)
AssignColors(variant, colors, seed, i, colorArray) ==
    IF i = Count THEN colorArray
    ELSE Bind(PickIndex(TapeOf(seed, i)[1], Len(colors)), LAMBDA n :
         Bind(IF variant = "fluid" THEN Boost(colors[n]) ELSE colors[n], LAMBDA color :
         Bind([colors EXCEPT ![n] = color], LAMBDA mutated :
         Bind([colorArray EXCEPT ![i] = color], LAMBDA stored :
             AssignColors(variant, mutated, seed, i + 1, stored)))))

(***************************************************************************)
(* State                                                                   *)
(***************************************************************************)
VARIABLES
    variant,        \* which version of the scene is running
    particles,      \* the particles array: index -> kinematic state
    particlesRef,   \* which array object the scene holds: allocations before it
    colorArray,     \* per-instance colour attribute
    songData,       \* App state: Null or the visualParams of the song
    handPos,        \* App state: the pointer handed to the scene
    prevHandPos,    \* fluid version: the pointer of the previous frame
    dummy,          \* the shared Object3D the matrices are composed with
    matrices,       \* mesh.instanceMatrix: index -> transform set for it
    lights,         \* the hand light and the rotating light
    colorPending,   \* the colour effect is scheduled and has not run
    frames,         \* frame callbacks run so far
    delivered,      \* history: the latest pointer update, how many came since the
                    \* last frame and whether they differed
    last,           \* history: what the latest frame read and computed
    call,           \* the latest call of a helper on its own: name, arguments, result
    audio,          \* the AudioEngine singleton and its scheduler loops
    ui,             \* App state of the player: play flag, loading, pending timers
    tracker         \* the HandController: enabled prop, effect runs, camera

vars == <<variant, particles, particlesRef, colorArray, songData, handPos, prevHandPos,
          dummy, matrices, lights, colorPending, frames, delivered, last, call,
          audio, ui, tracker>>

\* the particle scene and what it is handed
sceneVars == <<variant, particles, particlesRef, colorArray, songData, handPos,
               prevHandPos, dummy, matrices, lights, colorPending, frames,
               delivered, last>>

NoHand == [x |-> 0, y |-> 0, isDetected |-> FALSE]

NoCall == [fn |-> "none", args |-> << >>, result |-> << >>]

\* the AudioEngine as constructed: no context, not playing, no scheduler
\* loop; playing is the song of the latest play(), started counts the loops
NoAudio == [ctx |-> FALSE, isPlaying |-> FALSE, playing |-> "none",
            loops |-> {}, started |-> 0]

\* App's player state at mount: not playing, not loading, no song, no timer
NoUi == [isPlaying |-> FALSE, loading |-> FALSE, data |-> "none",
         request |-> << >>, timers |-> {}, generated |-> 0,
         autoPlayed |-> << >>]

\* HandController at mount with enabled = false
NoTracker == [kind |-> "hand", enabled |-> FALSE, runs |-> {}, started |-> 0,
              srcObject |-> 0, fresh |-> FALSE, live |-> {},
              early |-> FALSE, revived |-> FALSE]

NewDummy == [position |-> Zero3, scale |-> Vec(Scale, Scale, Scale), rotation |-> Zero3]

NoMatrix == [position |-> Zero3, scale |-> Zero3, rotation |-> Zero3]

NoLoc == [target |-> Zero3, base0 |-> Zero3, pos0 |-> Zero3, vel0 |-> Zero3,
          advance |-> 0,
          noise |-> Zero3, dist |-> 0, inRange |-> FALSE, power |-> 0,
          dir |-> Zero3, other |-> Zero3, finalScale |-> 0]

NoFrame == [ran |-> FALSE, hand |-> NoHand, sent |-> NoHand, prevHand |-> Null, mixed |-> FALSE,
            fresh |-> 0,
            vp |-> Null, prevVp |-> Null, bass |-> 0, treble |-> 0, seed |-> 0,
            dummy0 |-> NewDummy, locs |-> [i \in Indices |-> NoLoc]]

\* The scene after its first render: no song yet, no hand seen, the mount's
\* run of the colour effect still pending.
Init ==
    /\ variant \in Variants
    /\ particles = InitArray(0)
    /\ particlesRef = 0
    /\ colorArray = [i \in Indices |-> <<0, 0, 0>>]
    /\ songData = Null
    /\ handPos = NoHand
    /\ prevHandPos = Null
    /\ dummy = NewDummy
    /\ matrices = [i \in Indices |-> NoMatrix]
    /\ lights = [hand |-> [position |-> Zero3, intensity |-> 0], key |-> Zero3]
    /\ colorPending = TRUE
    /\ frames = 0
    /\ delivered = [hand |-> NoHand, mixed |-> FALSE, fresh |-> 0]
    /\ last = NoFrame
    /\ call = NoCall
    /\ audio = NoAudio
    /\ ui = NoUi
    /\ tracker = NoTracker

(***************************************************************************)
(* Operations                                                              *)
(***************************************************************************)
\* a useMemo that runs its initialiser on every render
UseMemoEveryRender(cached, deps, nextDeps, created) == created

\* useMemo(create, deps): the cached value while the dependencies are the
\* ones of the previous render, else what create() returns
UseMemo(cached, deps, nextDeps, created) ==
    IF deps = nextDeps THEN cached ELSE created

\* A render of Particles after its props changed: const particles =
\* useMemo(() => { ... }, []), as the array object and its contents
RenderParticles(ref, array) ==
    UseMemo([ref |-> ref, array |-> array], << >>, << >>,
            [ref |-> ref + 1, array |-> InitArray(ref + 1)])

\* setSongData(data) after generateSongFromMood resolves: the scene renders
\* with the new prop, and the change of songData schedules the colour effect
GenerateSong(s) ==
    /\ songData' = s
    /\ colorPending' = TRUE
    /\ \E m \in {RenderParticles(particlesRef, particles)} :
           particlesRef' = m.ref /\ particles' = m.array
    /\ UNCHANGED <<audio, ui, tracker, call, variant, colorArray, handPos, prevHandPos, dummy,
                   matrices, lights, frames, delivered, last>>

\* a setter that keeps a detected pointer it already holds
SetHandPosFirst(cur, h) == IF cur.isDetected THEN cur ELSE h

\* useState setter given a value: the new value replaces the state
SetHandPos(cur, h) == h

\* onHandUpdate={setHandPos}: the hand tracker reports a pointer and the
\* scene renders with it
HandUpdate(h) ==
    /\ delivered.fresh < MaxFresh
    /\ handPos' = SetHandPos(handPos, h)
    /\ delivered' = [hand |-> h,
                     mixed |-> delivered.mixed \/ (delivered.fresh > 0 /\ h # delivered.hand),
                     fresh |-> delivered.fresh + 1]
    /\ \E m \in {RenderParticles(particlesRef, particles)} :
           particlesRef' = m.ref /\ particles' = m.array
    /\ UNCHANGED <<audio, ui, tracker, call, variant, colorArray, songData, prevHandPos, dummy,
                   matrices, lights, colorPending, frames, last>>

\* an effect that paints white while there is no song
UpdateColorsDefaultWhite(v, song, seed, array) ==
    AssignColors(v, IF song = Null THEN <<White>> ELSE song.colorPalette, seed, 0, array)

\* the body of the colour effect: it returns at once while songData is
\* null, else it assigns a colour of the palette to every particle
UpdateColors(v, song, seed, array) ==
    IF song = Null THEN array
    ELSE AssignColors(v, song.colorPalette, seed, 0, array)

\* useEffect(..., [songData, colorArray, count]): update colours
ColorEffect(seed) ==
    /\ colorPending
    /\ colorPending' = FALSE
    /\ colorArray' = UpdateColors(variant, songData, seed, colorArray)
    /\ UNCHANGED <<audio, ui, tracker, call, variant, particles, particlesRef, songData, handPos, prevHandPos,
                   dummy, matrices, lights, frames, delivered, last>>

\* a callback that takes any pointer away from the origin as active
FrameEnvByCoords(v, hand, prev, in) ==
    LET handX == hand.x * 30
        handY == hand.y * 20
        active == hand.isDetected \/ hand.x # 0 \/ hand.y # 0
        moving == v = "fluid" /\ active /\ prev # Null
    IN  Bind(getFrequencyData(in.analyser, in.levels), LAMBDA freqData :
        [bass   |-> BandEnergy(freqData, 0, 10, 10),
         treble |-> BandEnergy(freqData, 100, 150, 50),
         time   |-> in.time,
         handX  |-> handX,
         handY  |-> handY,
         isHandActive |-> active,
         handVx |-> IF moving THEN (handX - prev.x) * 5 ELSE 0,
         handVy |-> IF moving THEN (handY - prev.y) * 5 ELSE 0])

\* what the callback computes before the loop
FrameEnv(v, hand, prev, in) ==
    LET handX == hand.x * 30
        handY == hand.y * 20
        moving == v = "fluid" /\ hand.isDetected /\ prev # Null
    IN  Bind(getFrequencyData(in.analyser, in.levels), LAMBDA freqData :
        [bass   |-> BandEnergy(freqData, 0, 10, 10),
         treble |-> BandEnergy(freqData, 100, 150, 50),
         time   |-> in.time,
         handX  |-> handX,
         handY  |-> handY,
         isHandActive |-> hand.isDetected,
         handVx |-> IF moving THEN (handX - prev.x) * 5 ELSE 0,
         handVy |-> IF moving THEN (handY - prev.y) * 5 ELSE 0])

\* the whole loop over the particles, from the state the callback finds
RunFrame(v, vp, hand, prev, ps, dm, ms, in) ==
    Bind(FrameEnv(v, hand, prev, in), LAMBDA env :
    Bind([particles |-> ps, dummy |-> dm, matrices |-> ms,
          locs |-> [i \in Indices |-> NoLoc], done |-> << >>], LAMBDA acc :
        ForEach(v, vp, env, in.seed, acc)))

\* useFrame((state) => ...): one frame callback
FrameStep(in) ==
    IF songData = Null
    THEN UNCHANGED <<audio, ui, tracker, call, variant, particles, particlesRef, colorArray, songData, handPos,
                     prevHandPos, dummy, matrices, lights, colorPending, delivered,
                     last>>
    ELSE \E env \in {FrameEnv(variant, handPos, prevHandPos, in)},
            r \in {RunFrame(variant, songData, handPos, prevHandPos,
                            particles, dummy, matrices, in)} :
             /\ particles' = r.particles
             /\ dummy' = r.dummy
             /\ matrices' = r.matrices
             /\ prevHandPos' =
                  IF variant = "fluid" /\ handPos.isDetected
                  THEN [x |-> env.handX, y |-> env.handY]
                  ELSE Null
             /\ lights' = [hand |-> [position |-> Vec(env.handX, env.handY, 5000),
                                     intensity |-> IF handPos.isDetected THEN 2 ELSE 0],
                           key  |-> Vec(Sin(MulDiv(in.time, 5, 10)) * 15,
                                        Cos(MulDiv(in.time, 3, 10)) * 15, 0)]
             /\ last' = [ran |-> TRUE, hand |-> handPos, prevHand |-> prevHandPos,
                         sent |-> delivered.hand, mixed |-> delivered.mixed,
                         fresh |-> delivered.fresh,
                         vp |-> songData, prevVp |-> last.vp,
                         bass |-> env.bass, treble |-> env.treble, seed |-> in.seed,
                         dummy0 |-> dummy, locs |-> r.locs]
             /\ delivered' = [delivered EXCEPT !.fresh = 0, !.mixed = FALSE]
             /\ UNCHANGED <<audio, ui, tracker, call, variant, particlesRef, colorArray, songData, handPos,
                            colorPending>>

Frame(in) ==
    /\ frames < MaxFrames
    /\ frames' = frames + 1
    /\ FrameStep(in)

\* The scene with hand tracking off (the App's default): songs are
\* generated, the colour effect follows each, frames run.
Next ==
    \/ \E s \in LifeSongs : GenerateSong(s)
    \/ \E seed \in Seeds : ColorEffect(seed)
    \/ \E in \in FrameInputs : Frame(in)

Spec == Init /\ [][Next]_vars

(***************************************************************************)
(* Frames alone: from any song, pointer and particle array the scene can   *)
(* hold when a frame begins, frame callbacks only.                         *)
(***************************************************************************)
InitFrames ==
    /\ variant \in Variants
    /\ particles \in InitArrays
    /\ particlesRef = 0
    /\ colorArray = [i \in Indices |-> <<0, 0, 0>>]
    /\ songData \in Songs
    /\ handPos \in Hands
    /\ prevHandPos = Null
    /\ dummy = NewDummy
    /\ matrices = [i \in Indices |-> NoMatrix]
    /\ lights = [hand |-> [position |-> Zero3, intensity |-> 0], key |-> Zero3]
    /\ colorPending = TRUE
    /\ frames = 0
    /\ delivered = [hand |-> handPos, mixed |-> FALSE, fresh |-> 0]
    /\ last = NoFrame
    /\ call = NoCall
    /\ audio = NoAudio
    /\ ui = NoUi
    /\ tracker = NoTracker

NextFrames == \E in \in FrameInputs : Frame(in)

SpecFrames == InitFrames /\ [][NextFrames]_vars

(***************************************************************************)
(* Hand tracking on: a song is present, the tracker reports pointers on    *)
(* its own cadence, frames run on theirs.                                  *)
(***************************************************************************)
InitPointer ==
    /\ variant \in Variants
    /\ particles = InitArray(0)
    /\ particlesRef = 0
    /\ colorArray = [i \in Indices |-> <<0, 0, 0>>]
    /\ songData \in {s \in Songs : s.shape = "sphere"}
    /\ handPos = NoHand
    /\ prevHandPos = Null
    /\ dummy = NewDummy
    /\ matrices = [i \in Indices |-> NoMatrix]
    /\ lights = [hand |-> [position |-> Zero3, intensity |-> 0], key |-> Zero3]
    /\ colorPending = TRUE
    /\ frames = 0
    /\ delivered = [hand |-> NoHand, mixed |-> FALSE, fresh |-> 0]
    /\ last = NoFrame
    /\ call = NoCall
    /\ audio = NoAudio
    /\ ui = NoUi
    /\ tracker = NoTracker

NextPointer ==
    \/ \E h \in Hands : HandUpdate(h)
    \/ \E in \in {f \in FrameInputs : f.seed < 2} : Frame(in)

SpecPointer == InitPointer /\ [][NextPointer]_vars
(***************************************************************************)
(* Idle scene: chaos = 0, no pointer; frames run for ever.  The *)
(* random source and the audio cycle through their samples.                *)
(***************************************************************************)
IdleSongs == {Song(sh, 0, 0, 1000, <<White>>) :
                 sh \in {"sphere", "cat", "flower", "fish", "star", "cube"}}

InitIdle ==
    /\ variant \in Variants
    /\ particles \in InitArrays
    /\ particlesRef = 0
    /\ colorArray = [i \in Indices |-> <<0, 0, 0>>]
    /\ songData \in IdleSongs
    /\ handPos = NoHand
    /\ prevHandPos = Null
    /\ dummy = NewDummy
    /\ matrices = [i \in Indices |-> NoMatrix]
    /\ lights = [hand |-> [position |-> Zero3, intensity |-> 0], key |-> Zero3]
    /\ colorPending = TRUE
    /\ frames = 0
    /\ delivered = [hand |-> NoHand, mixed |-> FALSE, fresh |-> 0]
    /\ last = NoFrame
    /\ call = NoCall
    /\ audio = NoAudio
    /\ ui = NoUi
    /\ tracker = NoTracker

\* a frame callback of the idle scene; the frame count is kept modulo the
\* length of the cycle of samples
IdleFrame ==
    \E in \in FrameInputs :
        /\ in.seed = frames
        /\ frames' = (frames + 1) % Len(Tapes)
        /\ FrameStep(in)

\* the frame count moves on: a frame callback has run
FrameTick == frames' = (frames + 1) % Len(Tapes)

\* the render loop calls the frame callback again and again
SpecIdle == InitIdle /\ [][IdleFrame]_vars /\ WF_frames(FrameTick)

(***************************************************************************)
(* The whole scene: songs are generated, the colour effect follows each,   *)
(* the hand tracker reports pointers, frames run.                          *)
(***************************************************************************)
SceneSongs == {s \in Songs : s.shape \in {"sphere", "flower"}}

NextScene ==
    \/ \E s \in SceneSongs : GenerateSong(s)
    \/ \E seed \in {0} : ColorEffect(seed)
    \/ \E h \in {h \in Hands : h.isDetected} : HandUpdate(h)
    \/ \E in \in {f \in FrameInputs : f.seed = 1} : Frame(in)

SpecScene == Init /\ [][NextScene]_vars

(***************************************************************************)
(* The quiet sphere: shape sphere, chaos = 0, speed = 0, no pointer, no    *)
(* audio; a run of SettleFrames frames from each initial array.            *)
(***************************************************************************)
InitSphere ==
    /\ InitIdle
    /\ songData.shape = "sphere"

\* a frame of the run, the audio engine never started
SphereFrame ==
    \E in \in {f \in FrameInputs : f.analyser = Null} :
        /\ frames < SettleFrames
        /\ frames' = frames + 1
        /\ FrameStep(in)

SpecSphere == InitSphere /\ [][SphereFrame]_vars

(***************************************************************************)
(* The target function on its own: any index of a scene of some size, any  *)
(* shape literal, any outcome of its random draws.                         *)
(***************************************************************************)
\* particle counts of the scenes the function is called for
TargetCounts == {Count, 10 * Count, 20 * Count}

\* the three draws a call can make, each low, middle or high
TargetDraws == {<<a, b, c, 0, 0, 0, 0>> : a \in RandVals, b \in RandVals, c \in RandVals}

\* one call of getTargetPosition(i, count, shape)
CallTarget(i, count, shape, d) ==
    /\ call = NoCall
    /\ call' = [fn |-> "getTargetPosition",
                args |-> [i |-> i, count |-> count, shape |-> shape, draws |-> d],
                result |-> GetTargetPosition(i, count, shape, d)]
    /\ UNCHANGED <<sceneVars, audio, ui, tracker>>

NextTarget ==
    \E count \in TargetCounts : \E i \in 0 .. (count - 1) :
        \E shape \in ShapeLiterals, d \in TargetDraws : CallTarget(i, count, shape, d)

SpecTarget == Init /\ [][NextTarget]_vars

(***************************************************************************)
(* The hand tracker's callback on its own: any detection result.           *)
(***************************************************************************)
\* video coordinates a landmark can have, 0 .. 1 in steps of 0.1
TipCoords == {k * (Scale \div 10) : k \in 0 .. 10}

\* the 21 landmarks of one hand (indices 0 .. 20 of the code are 1 .. 21
\* here), the index fingertip at tip and the others at the palm
HandWith(tip) ==
    [k \in 1 .. 21 |-> IF k = 9 THEN tip ELSE [x |-> 500, y |-> 600]]

\* what handLandmarker.detectForVideo can return: no landmarks field
\* (defined is false), no hand, or one hand (numHands: 1)
Detections ==
    {[defined |-> FALSE, landmarks |-> << >>], [defined |-> TRUE, landmarks |-> << >>]}
      \cup {[defined |-> TRUE, landmarks |-> <<HandWith([x |-> tx, y |-> ty])>>] :
                tx \in TipCoords, ty \in TipCoords}

\* a callback that reads the thumb tip and does not mirror x
predictWebcamThumb(ready, results) ==
    IF ~ready THEN << >>
    ELSE IF results.defined /\ Len(results.landmarks) > 0
    THEN LET hand == results.landmarks[1]
             thumbTip == hand[5]
         IN  << [x |-> thumbTip.x * 2 - Scale,
                 y |-> -(thumbTip.y * 2 - Scale),
                 isDetected |-> TRUE] >>
    ELSE << [x |-> 0, y |-> 0, isDetected |-> FALSE] >>

\* predictWebcam: the pointer updates one run of the callback hands to
\* onHandUpdate; none while the landmarker or the video element is missing
predictWebcam(ready, results) ==
    IF ~ready THEN << >>
    ELSE IF results.defined /\ Len(results.landmarks) > 0
    THEN LET hand == results.landmarks[1]
             indexTip == hand[9]
         IN  << [x |-> (Scale - indexTip.x) * 2 - Scale,
                 y |-> -(indexTip.y * 2 - Scale),
                 isDetected |-> TRUE] >>
    ELSE << [x |-> 0, y |-> 0, isDetected |-> FALSE] >>

\* one run of the callback
CallPredict(ready, results) ==
    /\ call = NoCall
    /\ call' = [fn |-> "predictWebcam",
                args |-> [ready |-> ready, results |-> results],
                result |-> predictWebcam(ready, results)]
    /\ UNCHANGED <<sceneVars, audio, ui, tracker>>

NextTracker == \E ready \in BOOLEAN, results \in Detections : CallPredict(ready, results)

SpecTracker == Init /\ [][NextTracker]_vars

(***************************************************************************)
(* The pointer interaction on its own: a particle at a chosen distance     *)
(* from the pointer, on both sides of the radius and of the cat's reach.   *)
(***************************************************************************)
\* distances from the pointer, in thousandths
ReachDistances == {0, 1, 5000, 7999, 8000, 12500, 24000, 24999, 25000, 25001, 40000}

\* pointers: none, a ghost (coordinates without detection), two detected
ReachHands == Hands \cup {[x |-> 500, y |-> -500, isDetected |-> FALSE]}

\* a particle at rest at distance r from the pointer, along x
ParticleAt(hand, r) ==
    [t |-> 0, x |-> hand.x * 30 + r, y |-> hand.y * 20, z |-> 0,
     baseX |-> 0, baseY |-> 0, baseZ |-> 0, vx |-> 0, vy |-> 0, vz |-> 0]

\* the interaction block of the loop body for one particle
CallInteraction(shape, hand, r, seed) ==
    /\ call = NoCall
    /\ \E env \in {FrameEnv(variant, hand, Null, InputOf(seed))} :
         call' = [fn |-> "interaction",
                  args |-> [shape |-> shape, hand |-> hand, r |-> r, seed |-> seed],
                  result |-> Interaction(variant, shape, env, ParticleAt(hand, r),
                                         TapeOf(seed, 0))]
    /\ UNCHANGED <<sceneVars, audio, ui, tracker>>

NextReach ==
    \E shape \in ShapeLiterals, hand \in ReachHands, r \in ReachDistances, seed \in Seeds :
        CallInteraction(shape, hand, r, seed)

SpecReach == Init /\ [][NextReach]_vars

(***************************************************************************)
(* The ambient noise on its own: any shape, chaos, phase and base.         *)
(***************************************************************************)
\* chaos values: none, the fallback song's, the documented maximum, beyond it
NoiseChaos == {0, 100, 1000, 1500}

\* phases: particle.t runs from its initial draw in [0, 100) upward
NoisePhases == {0, HalfPi, 3 * HalfPi, 50000, 99900}

\* morphed bases: the origin, the sphere's pole, and points whose scaled
\* coordinates are near the maxima of sin and cos
NoiseBases == {Zero3, Vec(0, -10000, 0), Vec(15710, 0, 15710),
               Vec(-15710, 0, 0), Vec(4000, 7000, -3000)}

\* noiseX, noiseY, noiseZ of one particle in one frame
CallNoise(shape, chaos, t, base) ==
    /\ call = NoCall
    /\ call' = [fn |-> "noise",
                args |-> [shape |-> shape, chaos |-> chaos, t |-> t, base |-> base],
                result |-> Noise(Song(shape, chaos, 1000, 1000, <<White>>), base, t)]
    /\ UNCHANGED <<sceneVars, audio, ui, tracker>>

NextNoise ==
    \E shape \in ShapeLiterals \cup {"cube"}, chaos \in NoiseChaos,
       t \in NoisePhases, base \in NoiseBases :
        CallNoise(shape, chaos, t, base)

SpecNoise == Init /\ [][NextNoise]_vars

(***************************************************************************)
(* The player: App's generate and play handlers, the auto-play timer, the  *)
(* AudioEngine and the animation frames its scheduler loops run on.        *)
(***************************************************************************)
\* SongData the generation service returns: the fallback (tempo 60) and a
\* generated one
Tunes == {
    [title |-> "Connection Lost", tempo |-> 60,
     visualParams |-> Song("sphere", 100, 500, 1000, <<White, Grey, Blue>>)],
    [title |-> "Generated", tempo |-> 120,
     visualParams |-> Song("cat", 0, 1000, 500, <<Blue>>)] }

\* AudioEngine.init(): the context and the analyser are created once
EngineInit(a) == [a EXCEPT !.ctx = TRUE]

\* a stop() that leaves the flag as it is
EngineStopKeepsFlag(a) == [a EXCEPT !.loops = {[l EXCEPT !.stopped = TRUE] : l \in @}]

\* AudioEngine.stop(): oscillators stopped, lists emptied, isPlaying = false;
\* no animation-frame request is cancelled.  Each live loop notes that a
\* stop() has happened since it started.
EngineStop(a) ==
    [a EXCEPT !.isPlaying = FALSE,
              !.loops = {[l EXCEPT !.stopped = TRUE] : l \in @}]

\* startPianoArpeggiator(chord, tempo): the first run of scheduler() is
\* synchronous; isPlaying is true then, so it requests an animation frame
\* and the loop is live
StartPianoArpeggiator(a, data) ==
    IF ~a.ctx THEN a
    ELSE IF ~a.isPlaying THEN a
    ELSE [a EXCEPT !.loops = @ \cup {[id |-> a.started + 1, song |-> data.title,
                                      stopped |-> FALSE, survived |-> FALSE]},
                   !.started = @ + 1]

\* AudioEngine.play(data)
EnginePlay(a, data) ==
    LET b == EngineInit(a)
    IN  IF ~b.ctx THEN b
        ELSE StartPianoArpeggiator(
                 [EngineStop(b) EXCEPT !.isPlaying = TRUE, !.playing = data.title],
                 data)

\* scheduler() as the animation-frame callback of one loop: it returns
\* without a new request when the engine is not playing, else it schedules
\* notes and requests the next frame; the loop notes whether it has thus
\* outlived a stop()
SchedulerCallback(a, loop) ==
    IF ~a.isPlaying \/ ~a.ctx
    THEN [a EXCEPT !.loops = @ \ {loop}]
    ELSE [a EXCEPT !.loops = (@ \ {loop}) \cup {[loop EXCEPT !.survived = loop.stopped]}]

\* handlePlay(data) of a render in which isPlaying was seen: the engine
\* after it and the value given to setIsPlaying
HandlePlay(seen, a, data) ==
    IF seen
    THEN [audio |-> EngineStop(a), isPlaying |-> FALSE]
    ELSE [audio |-> EnginePlay(a, data), isPlaying |-> TRUE]

\* handleGenerate up to its await: loading on, play flag off, engine
\* stopped.  The handlers of this render, and the isPlaying they closed
\* over, stay with the request.
HandleGenerate ==
    /\ ~ui.loading
    /\ ui.generated < MaxGenerations
    /\ ui' = [ui EXCEPT !.loading = TRUE, !.isPlaying = FALSE,
                        !.request = <<[isPlaying |-> ui.isPlaying]>>,
                        !.generated = @ + 1]
    /\ audio' = EngineStop(audio)
    /\ UNCHANGED <<sceneVars, call, tracker>>

\* handleGenerate after the await: setSongData(data), the 500 ms timer for
\* handlePlay(data), loading off
GenerateResolved(data) ==
    /\ ui.loading
    /\ ui' = [ui EXCEPT !.loading = FALSE, !.data = data.title, !.request = << >>,
                        !.timers = @ \cup {[id |-> ui.generated, data |-> data,
                                            isPlaying |-> ui.request[1].isPlaying]}]
    /\ songData' = data.visualParams
    /\ colorPending' = TRUE
    /\ \E m \in {RenderParticles(particlesRef, particles)} :
           particlesRef' = m.ref /\ particles' = m.array
    /\ UNCHANGED <<variant, colorArray, handPos, prevHandPos, dummy, matrices,
                   lights, frames, delivered, last, call, audio, tracker>>

\* the timer of a generation fires: handlePlay(data) of the render the
\* generation was requested in
TimerFires(t) ==
    /\ t \in ui.timers
    /\ (~t.isPlaying) => audio.started < MaxLoops
    /\ \E r \in {HandlePlay(t.isPlaying, audio, t.data)} :
          /\ audio' = r.audio
          /\ ui' = [ui EXCEPT !.isPlaying = r.isPlaying,
                              !.timers = @ \ {t},
                              !.autoPlayed = <<[data |-> t.data.title,
                                                requestedWhilePlaying |-> t.isPlaying,
                                                enginePlaying |-> r.audio.isPlaying,
                                                engineSong |-> r.audio.playing,
                                                uiPlaying |-> r.isPlaying]>>]
    /\ UNCHANGED <<sceneVars, call, tracker>>

\* a click on the play / stop button: handlePlay(songData) of the current
\* render
ClickPlay ==
    /\ ui.data # "none"
    /\ (~ui.isPlaying) => audio.started < MaxLoops
    /\ \E data \in {d \in Tunes : d.title = ui.data} :
       \E r \in {HandlePlay(ui.isPlaying, audio, data)} :
          /\ audio' = r.audio
          /\ ui' = [ui EXCEPT !.isPlaying = r.isPlaying]
    /\ UNCHANGED <<sceneVars, call, tracker>>

\* the browser runs the animation-frame callback a loop has requested
AnimationFrame(loop) ==
    /\ loop \in audio.loops
    /\ audio' = SchedulerCallback(audio, loop)
    /\ audio' # audio
    /\ UNCHANGED <<sceneVars, call, ui, tracker>>

NextPlayer ==
    \/ HandleGenerate
    \/ \E data \in Tunes : GenerateResolved(data)
    \/ \E t \in ui.timers : TimerFires(t)
    \/ ClickPlay
    \/ \E loop \in audio.loops : AnimationFrame(loop)

SpecPlayer == Init /\ [][NextPlayer]_vars

(***************************************************************************)
(* Properties                                                              *)
(***************************************************************************)
Axes == {"x", "y", "z"}

BaseOf(p) == Vec(p.baseX, p.baseY, p.baseZ)
PosOf(p) == Vec(p.x, p.y, p.z)
VelOf(p) == Vec(p.vx, p.vy, p.vz)

\* C1: in every frame, for every particle, shape and axis, the new base is
\* the old base plus 0.03 of its gap to the frame's target (to one unit of
\* truncation): it never jumps to or past the target, and the gap left is
\* 0.97 of the gap before.  Holds in the frame after a change of shape too.
MorphIsLerp ==
    last.ran =>
        \A i \in Indices : \A a \in Axes :
            LET b0 == last.locs[i].base0[a]
                T  == last.locs[i].target[a]
                b1 == BaseOf(particles[i])[a]
            IN  /\ Abs(100 * (b1 - b0) - 3 * (T - b0)) < 100
                /\ 100 * Abs(T - b1) >= 97 * Abs(T - b0)
                /\ 100 * Abs(T - b1) < 97 * Abs(T - b0) + 100
                /\ (T - b1) * (T - b0) >= 0

\* C1 witness: a frame ran right after the shape changed, and moved a base
MorphAfterShapeChange ==
    /\ last.ran
    /\ last.prevVp # Null
    /\ last.prevVp.shape # last.vp.shape
    /\ \E i \in Indices : BaseOf(particles[i]) # last.locs[i].base0

\* the resolution of the spring in fixed point: a gap below it pulls nothing
Eps == 20

\* particle i is at rest at its base
Settled(i) ==
    /\ VelOf(particles[i]) = Zero3
    /\ \A a \in Axes : Abs(PosOf(particles[i])[a] - BaseOf(particles[i])[a]) < Eps

\* the target of particle i is computed without a random draw
FixedTarget(shape, i) ==
    /\ shape \notin {"flower", "fish", "star"}
    /\ shape = "cat" => Ratio(i, Count) < 850

\* C2 as stated: idle, every particle of every shape comes to rest at its
\* base and stays there
IdleStabilityAllShapes == <>[](\A i \in Indices : Settled(i))

\* C2 amended: idle, every particle whose target is drawn without randomness
\* (sphere, unknown shape, cat head and body) comes to rest at its base and
\* stays there
IdleStability ==
    <>[](\A i \in Indices : FixedTarget(songData.shape, i) => Settled(i))

\* C2 witness: a sphere particle that started away from its base, at rest
\* at its base after frames have run
IdleAtRest ==
    /\ last.ran
    /\ songData.shape = "sphere"
    /\ \A i \in Indices : Settled(i)
    /\ \E i \in Indices : \E a \in Axes :
          Abs(PosOf(InitArray(0)[i])[a] - BaseOf(InitArray(0)[i])[a]) > 1000

\* the world position of the pointer that the frame read
PointerAt(hand) == Vec(hand.x * 30, hand.y * 20, 0)

\* C3: a particle that sits exactly on the detected pointer (dist = 0) is in
\* range with full power, gets exactly zero from the directional force terms,
\* and leaves the frame with the velocity friction and spring give it and
\* the position that velocity carries it to, both within finite bounds
PointerSingularity ==
    last.ran /\ last.hand.isDetected =>
        \A i \in Indices :
            last.locs[i].pos0 = PointerAt(last.hand) =>
                LET l == last.locs[i]
                    p == particles[i]
                IN  /\ l.dist = 0
                    /\ l.inRange
                    /\ l.power = Scale
                    /\ l.dir = Zero3
                    /\ \A a \in Axes :
                          /\ VelOf(p)[a] =
                               Friction(variant, l.vel0[a] + l.other[a])
                                 + Spring(variant, TRUE,
                                          BaseOf(p)[a] + l.noise[a] - l.pos0[a])
                          /\ PosOf(p)[a] = l.pos0[a] + VelOf(p)[a]
                          /\ Abs(VelOf(p)[a]) < 100 * Scale

\* C3 witness: a frame has run with the pointer detected and a particle
\* exactly on it
ParticleOnPointer ==
    /\ last.ran
    /\ last.hand.isDetected
    /\ \E i \in Indices : last.locs[i].pos0 = PointerAt(last.hand)

\* C4: in a frame whose shape is none of the five literals, the target of
\* every particle index is the sphere target of the same (i, count), and the
\* frame completes: every base has moved toward that target
UnknownShapeIsSphere ==
    last.ran /\ last.vp.shape \notin ShapeLiterals =>
        \A i \in Indices :
            /\ last.locs[i].target =
                 GetTargetPosition(i, Count, "sphere", TapeOf(last.seed, i))
            /\ last.locs[i].target =
                 SetFromSphericalCoords(10000, Phi(i, Count), Theta(i, Count))
            /\ \A a \in Axes :
                  BaseOf(particles[i])[a] =
                     Lerp(last.locs[i].base0[a], last.locs[i].target[a])

\* C4 witness: a frame has run on a shape outside the literals and has moved
\* a base
UnknownShapeFrame ==
    /\ last.ran
    /\ last.vp.shape \notin ShapeLiterals
    /\ \E i \in Indices : BaseOf(particles[i]) # last.locs[i].base0

\* a value clamped into [lo, hi]
ClampTo(v, lo, hi) == IF v < lo THEN lo ELSE IF v > hi THEN hi ELSE v

\* VisualParams with its numeric fields clamped into the documented ranges:
\* chaos in [0, 1], speed in [0.1, 2], size in [0.1, 2]
ClampParams(vp) ==
    [vp EXCEPT !.chaos = ClampTo(@, 0, Scale),
               !.speed = ClampTo(@, 100, 2 * Scale),
               !.size  = ClampTo(@, 100, 2 * Scale)]

\* particle i as the last frame found it
Before(i) ==
    LET l == last.locs[i]
    IN  [t |-> particles[i].t - l.advance,
         x |-> l.pos0.x, y |-> l.pos0.y, z |-> l.pos0.z,
         baseX |-> l.base0.x, baseY |-> l.base0.y, baseZ |-> l.base0.z,
         vx |-> l.vel0.x, vy |-> l.vel0.y, vz |-> l.vel0.z]

\* the local values of the last frame's body for particle i, had the frame
\* been given the visual parameters vp
LocalsWith(vp, i) ==
    ParticleStep(variant, vp,
                 FrameEnv(variant, last.hand, last.prevHand, InputOf(last.seed)),
                 Before(i), i, last.dummy0, TapeOf(last.seed, i)).loc

\* C5 as stated: the phase advance, the noise amplitude and the render scale
\* of every frame are those of the visual parameters clamped into their
\* documented ranges
ParamsAreClamped ==
    last.ran =>
        \A i \in Indices :
            LET c == LocalsWith(ClampParams(last.vp), i)
            IN  /\ last.locs[i].advance = c.advance
                /\ last.locs[i].noise = c.noise
                /\ last.locs[i].finalScale = c.finalScale

\* the frames do use the parameters as they are given
ParamsAreRaw ==
    last.ran =>
        \A i \in Indices :
            LET c == LocalsWith(last.vp, i)
            IN  /\ last.locs[i].advance = c.advance
                /\ last.locs[i].noise = c.noise
                /\ last.locs[i].finalScale = c.finalScale

\* the entries of a palette
Entries(palette) == {palette[n] : n \in 1..Len(palette)}

\* C6 as stated: once the colour effect has run for the current palette,
\* the colour stored for every particle is exactly one of the palette's
\* entries, and a 1-entry palette gives every particle that single colour
ColorsFromPalette ==
    ~colorPending /\ songData # Null =>
        /\ \A i \in Indices : colorArray[i] \in Entries(songData.colorPalette)
        /\ Len(songData.colorPalette) = 1 =>
              \A i \in Indices : colorArray[i] = songData.colorPalette[1]

\* the version of the scene without the brightness boost does store palette
\* entries only
ColorsFromPaletteClassic == variant = "classic" => ColorsFromPalette

\* C7: the pointer a frame uses is the most recent update delivered before
\* the frame began, however many arrived since the previous frame, and that
\* one value is applied to every particle of the frame
PointerLastWriteWins ==
    last.ran =>
        /\ last.hand = last.sent
        /\ \A i \in Indices :
              LET l == last.locs[i]
                  h == PointerAt(last.hand)
              IN  /\ l.dist = Dist(l.pos0.x - h.x, l.pos0.y - h.y, l.pos0.z - h.z)
                  /\ l.inRange = (last.hand.isDetected /\ l.dist < 25000)

\* C7 witness: a frame has run after several updates with different
\* pointers had arrived since the frame before
FrameAfterSeveralUpdates ==
    /\ last.ran
    /\ last.fresh >= 2
    /\ last.mixed

\* another particle, and another state of the shared rendering object
Stranger == NewParticle(<<999, 0, 500, 999, 0, 500, 999>>)
OtherDummy == [position |-> Vec(1000, 2000, 3000), scale |-> Vec(500, 500, 500),
               rotation |-> Vec(700, -700, 0)]

\* the last frame run again with particle i as it was and every other
\* particle, and the rendering object, replaced
AloneIn(i) ==
    RunFrame(variant, last.vp, last.hand, last.prevHand,
             [j \in Indices |-> IF j = i THEN Before(i) ELSE Stranger],
             OtherDummy, [j \in Indices |-> NoMatrix], InputOf(last.seed))

\* C8: the physical state (position, velocity, base, phase) of particle i
\* after a frame is the one the frame gives it whatever the other particles
\* and the scale and rotation of the rendering object are
ParticleIndependence ==
    last.ran => \A i \in Indices : particles[i] = AloneIn(i).particles[i]

\* C8 witness: a frame has run with the pointer acting on a particle while
\* the particles differ from one another
FrameOnDistinctParticles ==
    /\ last.ran
    /\ \E i \in Indices : last.locs[i].inRange /\ VelOf(particles[i]) # Zero3
    /\ \E i, j \in Indices : last.locs[i].pos0 # last.locs[j].pos0

\* vy * 0.1, vx * 0.1 (0.2 in the fluid version) in the unit of the
\* rotation: the increment particle p's velocity contributes
RotationDelta(p) ==
    LET k == IF variant = "classic" THEN 1 ELSE 2
    IN  Vec(p.vy * k, p.vx * k, 0)

\* C9 as stated: the rotation handed to the renderer for particle i is the
\* increment of particle i's own velocity in that frame, whatever the other
\* particles' velocities and the frames already run
RotationIsOwnIncrement ==
    last.ran => \A i \in Indices : matrices[i].rotation = RotationDelta(particles[i])

\* what the frames hand over instead: the running sum, over all frames so
\* far and over the particles up to i, of the increments
RotationIsRunningSum ==
    last.ran =>
        \A i \in Indices : \A a \in Axes :
            matrices[i].rotation[a] =
                (IF i = 0 THEN last.dummy0.rotation[a]
                          ELSE matrices[i - 1].rotation[a])
                  + RotationDelta(particles[i])[a]

\* pointers that are not detected, at several coordinates
GhostHands == {[x |-> h.x, y |-> h.y, isDetected |-> FALSE] : h \in Hands}

\* the particles the last frame would have left, had the pointer been hand
WithPointer(hand) ==
    RunFrame(variant, last.vp, hand, last.prevHand,
             [i \in Indices |-> Before(i)], last.dummy0,
             [i \in Indices |-> NoMatrix], InputOf(last.seed)).particles

\* C10: a frame run with an undetected pointer leaves every particle with
\* the same position, velocity, base and phase whatever the coordinates of
\* that pointer are, and the interaction contributes nothing
UndetectedPointerIgnored ==
    last.ran /\ ~last.hand.isDetected =>
        /\ \A g \in GhostHands : WithPointer(g) = particles
        /\ \A i \in Indices :
              /\ ~last.locs[i].inRange
              /\ last.locs[i].dir = Zero3
              /\ last.locs[i].other = Zero3

\* C10 witness: a frame has run with the pointer undetected while a
\* particle sat where one of the undetected pointers points
FrameWithGhostPointer ==
    /\ last.ran
    /\ ~last.hand.isDetected
    /\ \E g \in GhostHands : \E i \in Indices :
          /\ g.x # 0
          /\ last.locs[i].pos0 = PointerAt(g)


\* the frame the last callback ran found the audio engine without analyser
NoAnalyserYet == last.ran /\ InputOf(last.seed).analyser = Null

\* C11: a frame that runs while the audio engine has no analyser derives
\* bass = 0 and treble = 0; every particle's phase advances by exactly
\* speed * 0.005 and its render scale is size * 0.2, with no audio term
SilentWithoutAnalyser ==
    NoAnalyserYet =>
        /\ last.bass = 0
        /\ last.treble = 0
        /\ \A i \in Indices :
              /\ last.locs[i].advance = MulDiv(last.vp.speed, 5, Scale)
              /\ particles[i].t = Before(i).t + MulDiv(last.vp.speed, 5, Scale)
              /\ last.locs[i].finalScale = MulDiv(last.vp.size, 2, 10)
              /\ matrices[i].scale = Vec(MulDiv(last.vp.size, 2, 10),
                                        MulDiv(last.vp.size, 2, 10),
                                        MulDiv(last.vp.size, 2, 10))

\* a frame ran without analyser on a song whose phase moves
FrameWithoutAnalyser ==
    NoAnalyserYet /\ last.vp.speed > 0 /\ last.vp.size > 0

\* the spectrum the last frame read
SpectrumOf(seed) == getFrequencyData(InputOf(seed).analyser, InputOf(seed).levels)

\* arithmetic mean of the magnitudes in bins lo .. hi - 1 of a spectrum, over
\* the bins the spectrum has there, divided by 255
BandMean(freq, lo, hi) ==
    LET top == IF hi < Len(freq) THEN hi ELSE Len(freq)
        RECURSIVE Sum(_)
        Sum(k) == IF k >= top THEN 0 ELSE freq[k + 1] + Sum(k + 1)
    IN  IF top <= lo THEN 0 ELSE MulDiv(Sum(lo), Scale, (top - lo) * 255)

\* C12 as stated: on every spectrum the analyser returns, bass and treble are
\* the arithmetic means of the magnitudes in their bands divided by 255, and
\* lie in [0, 1]
EnergyIsBandMean ==
    (last.ran /\ InputOf(last.seed).analyser # Null) =>
        /\ last.bass = BandMean(SpectrumOf(last.seed), 0, 10)
        /\ last.treble = BandMean(SpectrumOf(last.seed), 100, 150)
        /\ last.bass >= 0 /\ last.bass <= Scale
        /\ last.treble >= 0 /\ last.treble <= Scale

\* what the frames do compute: bass is the mean of bins 0 .. 9; treble is
\* the sum of the 28 bins the spectrum has from 100 on, divided by 50
EnergyAsComputed ==
    (last.ran /\ InputOf(last.seed).analyser # Null) =>
        /\ Len(SpectrumOf(last.seed)) = FftSize \div 2
        /\ last.bass = BandMean(SpectrumOf(last.seed), 0, 10)
        /\ last.treble = MulDiv(BandMean(SpectrumOf(last.seed), 100, 150),
                                Len(SpectrumOf(last.seed)) - 100, 50)
        /\ last.bass >= 0 /\ last.bass <= Scale
        /\ last.treble >= 0 /\ last.treble <= MulDiv(Scale, 28, 50)

\* C13: whatever frames, palette changes, shape changes, new songs and
\* pointer updates have happened, the scene holds the array object it
\* created at first, and that array has the length it was created with
ParticleArrayFixed ==
    /\ particlesRef = 0
    /\ DOMAIN particles = 0 .. (Count - 1)

\* frames have run on two songs of different shape and palette, with a
\* detected pointer, and the colours have been redrawn
SceneHasLived ==
    /\ last.ran /\ last.prevVp # Null
    /\ last.prevVp.shape # last.vp.shape
    /\ last.prevVp.colorPalette # last.vp.colorPalette
    /\ last.hand.isDetected
    /\ ~colorPending
    /\ particles # InitArray(0)

\* squared length of a vector, in units of Scale^2
LengthSq(v) == v.x * v.x + v.y * v.y + v.z * v.z

\* C14: for every index below the count, every shape literal and every
\* outcome of the random draws, the target is a finite vector of magnitude
\* strictly less than 20
TargetWithin20 ==
    call.fn = "getTargetPosition" =>
        /\ call.result.x \in Int /\ call.result.y \in Int /\ call.result.z \in Int
        /\ LengthSq(call.result) < (20 * Scale) * (20 * Scale)

\* the longest target there is: a spike of the star drawn at full radius
TargetOfStarSpike ==
    /\ call.fn = "getTargetPosition"
    /\ call.args.shape = "star" /\ call.args.i % 20 = 0 /\ call.args.draws[1] = 999
    /\ LengthSq(call.result) > (17 * Scale) * (17 * Scale)

\* distance of particle i from the origin lies in [lo, hi]
RadiusWithin(i, lo, hi) ==
    /\ LengthSq(PosOf(particles[i])) >= lo * lo
    /\ LengthSq(PosOf(particles[i])) <= hi * hi

\* C15: shape sphere, chaos = 0, speed = 0, pointer not detected, audio
\* energy 0: after 500 frames from any initial array every particle is at a
\* distance within [9.8, 10.2] of the origin
SphereConverges ==
    (/\ frames = SettleFrames
     /\ songData.shape = "sphere" /\ songData.chaos = 0 /\ songData.speed = 0
     /\ ~handPos.isDetected /\ last.bass = 0 /\ last.treble = 0) =>
        \A i \in Indices : RadiusWithin(i, 9800, 10200)

\* the run is over: 500 frames have run and the particles, which started
\* scattered, are at rest
SphereRunDone ==
    /\ frames = SettleFrames /\ last.ran
    /\ songData.shape = "sphere"
    /\ \A i \in Indices : VelOf(particles[i]) = Zero3 /\ RadiusWithin(i, 9800, 10200)

\* the index fingertip of the detection the callback was run on
TipOf(results) == results.landmarks[1][9]

\* C16: every update the hand tracker emits is well-formed: for a detected
\* fingertip with coordinates in [0, 1] it is x = 1 - 2 * tip.x,
\* y = 1 - 2 * tip.y, both in [-1, 1], isDetected = true; when no hand is
\* found it is exactly {x: 0, y: 0, isDetected: false}
PointerWellFormed ==
    call.fn = "predictWebcam" =>
        \A k \in 1 .. Len(call.result) :
            LET sent == call.result[k]
                res == call.args.results
            IN  IF res.defined /\ res.landmarks # << >>
                THEN /\ sent.x = Scale - 2 * TipOf(res).x
                     /\ sent.y = Scale - 2 * TipOf(res).y
                     /\ sent.x >= -Scale /\ sent.x <= Scale
                     /\ sent.y >= -Scale /\ sent.y <= Scale
                     /\ sent.isDetected
                ELSE sent = [x |-> 0, y |-> 0, isDetected |-> FALSE]

\* the callback has emitted the update of a fingertip at the top left of
\* the video
PointerFromCorner ==
    /\ call.fn = "predictWebcam"
    /\ Len(call.result) = 1 /\ call.result[1].isDetected
    /\ call.args.results.defined /\ call.args.results.landmarks # << >>
    /\ TipOf(call.args.results) = [x |-> 0, y |-> 0]
    /\ call.result[1].x = Scale /\ call.result[1].y = Scale

\* the pointer force of the last frame on particle i
PointerForce(i) ==
    Vec(last.locs[i].dir.x + last.locs[i].other.x,
        last.locs[i].dir.y + last.locs[i].other.y,
        last.locs[i].dir.z + last.locs[i].other.z)

\* currentTarget of the last frame for particle i: the morphed base + noise
CurrentTarget(i) ==
    Vec(particles[i].baseX + last.locs[i].noise.x,
        particles[i].baseY + last.locs[i].noise.y,
        particles[i].baseZ + last.locs[i].noise.z)

\* C17: a frame updates each particle in the order pointer force, damping,
\* spring, integration: velocity' = f * (velocity + pointerForce)
\* + s * (currentTarget - position) and position' = position + velocity'
\* on each axis, with f = 0.92 (0.94 in the fluid version), s = 0.05 when
\* the pointer is idle and a strictly smaller s when it is detected
StepIsForceDampSpringIntegrate ==
    last.ran =>
        \E f \in IF variant = "classic" THEN {92} ELSE {94} :
        \E s \in IF last.hand.isDetected THEN 0 .. 49 ELSE {50} :
            \A i \in Indices : \A a \in Axes :
                /\ VelOf(particles[i])[a] =
                       MulDiv(last.locs[i].vel0[a] + PointerForce(i)[a], f, 100)
                         + MulDiv(CurrentTarget(i)[a] - last.locs[i].pos0[a], s, 1000)
                /\ PosOf(particles[i])[a] =
                       last.locs[i].pos0[a] + VelOf(particles[i])[a]

\* a frame in which a moving particle, off its target, took a pointer force
FrameWithForceAndSpring ==
    /\ last.ran /\ last.hand.isDetected
    /\ \E i \in Indices :
          /\ last.locs[i].inRange /\ PointerForce(i) # Zero3
          /\ last.locs[i].vel0 # Zero3
          /\ CurrentTarget(i) # last.locs[i].pos0

\* displacement of particle i from the pointer when the last frame began
Displacement(i) ==
    Vec(last.locs[i].pos0.x - last.hand.x * 30,
        last.locs[i].pos0.y - last.hand.y * 20,
        last.locs[i].pos0.z)

\* the cat's attraction: -d * 0.05 * power
Attraction(d, power) ==
    Vec(-FMul(MulDiv(d.x, 5, 100), power),
        -FMul(MulDiv(d.y, 5, 100), power),
        -FMul(MulDiv(d.z, 5, 100), power))

\* the flower's push: d * 0.1 * power in the plane
Push(d, power) ==
    Vec(FMul(MulDiv(d.x, 1, 10), power), FMul(MulDiv(d.y, 1, 10), power), 0)

\* a jitter of at most power on each axis
IsJitter(v, power) == \A a \in Axes : Abs(v[a]) <= power

\* C18 as stated: the pointer force is selected by shape: for cat the only
\* force is the attraction plus jitter, applied when dist < 8; for flower
\* the only force is the push away from the pointer; the vortex with
\* suction is left to sphere, fish and star
ForceSelectedByShape ==
    (last.ran /\ last.vp.shape \in ShapeLiterals) =>
        \A i \in Indices :
            last.locs[i].inRange =>
                CASE last.vp.shape = "cat" ->
                       IF last.locs[i].dist < 8000
                       THEN /\ last.locs[i].dir =
                                 Attraction(Displacement(i), last.locs[i].power)
                            /\ IsJitter(last.locs[i].other, last.locs[i].power)
                       ELSE PointerForce(i) = Zero3
                  [] last.vp.shape = "flower" ->
                       PointerForce(i) = Push(Displacement(i), last.locs[i].power)
                  [] OTHER -> TRUE

\* what the classic frame does: the branches are cat with dist < 8, flower,
\* and everything else; a cat particle at dist >= 8 takes the vortex and
\* suction a sphere particle would take
FarCatTakesVortex ==
    (last.ran /\ variant = "classic") =>
        \A i \in Indices :
            (last.locs[i].inRange /\ last.vp.shape = "cat" /\ last.locs[i].dist >= 8000)
                => /\ last.locs[i].dir =
                        DirectionalForce(variant, "sphere", Displacement(i).x,
                                         Displacement(i).y, Displacement(i).z,
                                         last.locs[i].dist, last.locs[i].power)
                   /\ last.locs[i].dir # Zero3

\* influence = 1 - dist / 25
InfluenceAt(dist) == Scale - MulDiv(dist, Scale, 25000)

\* C19: a pointer force is added only when the pointer is detected and the
\* particle is at a distance strictly below 25 from it; whenever a force is
\* applied, influence = 1 - dist / 25 and power = influence^2 satisfy
\* 0 < power <= influence <= 1.  power is kept to three decimals, so its
\* sign is read from the exact square.
ForceOnlyInReach ==
    call.fn = "interaction" =>
        LET r == call.result
            applied == r.dir # Zero3 \/ r.other # Zero3 \/ r.inRange
        IN  /\ applied => (call.args.hand.isDetected /\ r.dist < 25000)
            /\ r.dist = call.args.r
            /\ applied =>
                 /\ r.power = FMul(InfluenceAt(r.dist), InfluenceAt(r.dist))
                 /\ 0 < InfluenceAt(r.dist) * InfluenceAt(r.dist)
                 /\ 0 <= r.power
                 /\ r.power <= InfluenceAt(r.dist)
                 /\ 0 < InfluenceAt(r.dist)
                 /\ InfluenceAt(r.dist) <= Scale

\* a force was applied half-way into the radius: influence 0.5, power 0.25
ForceAtHalfRadius ==
    /\ call.fn = "interaction"
    /\ call.result.inRange /\ call.result.dist = 12500
    /\ call.result.power = 250
    /\ call.result.dir # Zero3

\* ten times the shape factor of the noise: 0.5 for cat, 1.5 for fish, else 1
ShapeFactor10(shape) ==
    IF shape = "cat" THEN 5 ELSE IF shape = "fish" THEN 15 ELSE 10

\* C20: the noise offset added to basePosition is bounded on each axis by
\* 5 * chaos * k, k = 0.5 for cat, 1.5 for fish and 1 for every other shape;
\* with chaos = 0 currentTarget is basePosition exactly, for any phase
NoiseBounded ==
    call.fn = "noise" =>
        /\ \A a \in Axes :
              Abs(call.result[a]) * 10
                 <= 5 * call.args.chaos * ShapeFactor10(call.args.shape)
        /\ call.args.chaos = 0 =>
              \A a \in Axes : call.args.base[a] + call.result[a] = call.args.base[a]

\* the noise of a cat at chaos 1 on an axis where it is above 90% of its
\* bound of 2.5
NoiseNearBound ==
    /\ call.fn = "noise"
    /\ call.args.shape = "cat" /\ call.args.chaos = Scale
    /\ \E a \in Axes : Abs(call.result[a]) > 2250

\* the scheduler loops that are live and have either not been stopped or
\* have outlived their stop()
LoopsRunning == {l \in audio.loops : ~l.stopped \/ l.survived}

\* C21 as stated: at most one scheduler loop is live; a loop started before
\* a stop() does not reschedule itself at its next animation-frame callback,
\* whatever the order of play(), stop() and the callbacks
OneSchedulerLoop ==
    /\ \A l \in audio.loops : ~l.survived
    /\ Cardinality(LoopsRunning) <= 1

\* what does hold: play() leaves exactly one loop that no stop() has
\* followed, and a stopped engine has none; the loops that outlive a stop()
\* are those whose callback finds the engine playing again
FreshLoopIsUnique ==
    /\ Cardinality({l \in audio.loops : ~l.stopped}) = (IF audio.isPlaying THEN 1 ELSE 0)
    /\ \A l \in audio.loops : l.survived => l.stopped

\* C22 as stated: once the timer of a completed generation has fired, the
\* engine is playing the generated song and the UI's play flag is true,
\* whatever the play state was when the generation was requested
AutoPlayStartsSong ==
    \A e \in {ui.autoPlayed[k] : k \in DOMAIN ui.autoPlayed} :
        e.enginePlaying /\ e.engineSong = e.data /\ e.uiPlaying

\* what does hold: the timer runs the handlePlay of the render the request
\* was made in, so it starts the song exactly when nothing was playing at
\* the request, and otherwise stops the engine
AutoPlayFollowsRequestState ==
    \A e \in {ui.autoPlayed[k] : k \in DOMAIN ui.autoPlayed} :
        /\ e.uiPlaying = e.enginePlaying
        /\ e.enginePlaying = ~e.requestedWhilePlaying
        /\ e.enginePlaying => e.engineSong = e.data

\* C25: after every completed click handler, generate handler and auto-play
\* timer, the UI's isPlaying equals the engine's isPlaying, in every order
\* of these (the audio context can always be created)
UiFlagIsEngineFlag == ui.isPlaying = audio.isPlaying

\* a click started playback before the timer of the generation fired, and
\* the timer then restarted it: both flags are true
FlagsAgreeAfterClickThenTimer ==
    /\ Len(ui.autoPlayed) = 1
    /\ ~ui.autoPlayed[1].requestedWhilePlaying
    /\ audio.started >= 2
    /\ ui.isPlaying /\ audio.isPlaying

(***************************************************************************)
(* The life cycle of a tracker: HandController and FaceEmotionDetector     *)
(***************************************************************************)

MaxRuns == 2     \* times a tracker is switched on in one behaviour

Trackers == {"hand", "face"}

\* what detectForVideo returns in the life-cycle runs: no landmarks field,
\* no hand, one hand
CameraDetections ==
    {d \in Detections :
        d.landmarks # << >> => d.landmarks[1][9] = [x |-> 200, y |-> 300]}

\* the effect body with enabled true: handLandmarker = null, no frame
\* requested, setupLandmarker() called and waiting at its first await
NewRun(id) ==
    [id |-> id, stage |-> "loading", landmarker |-> "none", listening |-> FALSE,
     pending |-> FALSE, frame |-> FALSE, cleaned |-> FALSE]

\* the effect run whose cleanup React holds: the one of the last switch-on
CurrentRuns(t) == {r \in t.runs : ~r.cleaned}

\* no 'loadeddata' dispatch is under way
NoDispatch(t) == \A r \in t.runs : ~r.pending

\* the cleanup of an effect run: the frame this run requested last is
\* cancelled, the tracks of the video's current srcObject are stopped, the
\* landmarker is closed if this run has one.  srcObject stays, and so does
\* the 'loadeddata' listener.
Cleanup(t, r) ==
    [t EXCEPT !.runs = (@ \ {r}) \cup
                  {[r EXCEPT !.frame = FALSE,
                             !.landmarker = IF @ = "open" THEN "closed" ELSE @,
                             !.cleaned = TRUE]},
              !.live = IF t.srcObject # 0 THEN @ \ {t.srcObject} ELSE @,
              !.early = @ \/ r.stage # "detecting"]

\* the effect of [enabled]: the cleanup of the previous run if it returned
\* one, then the body
TrackerEffect(t, enabled) ==
    IF enabled
    THEN [t EXCEPT !.enabled = TRUE, !.runs = @ \cup {NewRun(t.started + 1)},
                   !.started = @ + 1]
    ELSE LET r == CHOOSE r \in CurrentRuns(t) : TRUE
         IN  [Cleanup(t, r) EXCEPT !.enabled = FALSE]

\* a click on the tracker's button: setShow...Tracking(!show...Tracking),
\* the render and the effect
ToggleTracking ==
    /\ NoDispatch(tracker)
    /\ tracker.enabled \/ tracker.started < MaxRuns
    /\ tracker' = TrackerEffect(tracker, ~tracker.enabled)
    /\ UNCHANGED <<sceneVars, call, audio, ui>>

\* setupLandmarker after its awaits: the landmarker is assigned,
\* startWebcam() finds the video element (it is rendered whether or not
\* the tracker is enabled) and waits for getUserMedia
ModelLoaded(r) ==
    /\ NoDispatch(tracker)
    /\ r \in tracker.runs /\ r.stage = "loading"
    /\ tracker' = [tracker EXCEPT !.runs = (@ \ {r}) \cup
                       {[r EXCEPT !.landmarker = "open", !.stage = "camera"]}]
    /\ UNCHANGED <<sceneVars, call, audio, ui>>

\* the model fails to load: the catch of setupLandmarker
ModelFailed(r) ==
    /\ NoDispatch(tracker)
    /\ r \in tracker.runs /\ r.stage = "loading"
    /\ tracker' = [tracker EXCEPT !.runs = (@ \ {r}) \cup {[r EXCEPT !.stage = "failed"]}]
    /\ UNCHANGED <<sceneVars, call, audio, ui>>

\* getUserMedia resolves: the stream becomes the video's srcObject and
\* predictWebcam is added as a 'loadeddata' listener
CameraGranted(r) ==
    /\ NoDispatch(tracker)
    /\ r \in tracker.runs /\ r.stage = "camera"
    /\ tracker' = [tracker EXCEPT !.runs = (@ \ {r}) \cup
                       {[r EXCEPT !.listening = TRUE, !.stage = "waiting"]},
                                  !.live = @ \cup {r.id},
                                  !.srcObject = r.id,
                                  !.fresh = TRUE]
    /\ UNCHANGED <<sceneVars, call, audio, ui>>

\* getUserMedia rejects: the catch of startWebcam
CameraDenied(r) ==
    /\ NoDispatch(tracker)
    /\ r \in tracker.runs /\ r.stage = "camera"
    /\ tracker' = [tracker EXCEPT !.runs = (@ \ {r}) \cup {[r EXCEPT !.stage = "failed"]}]
    /\ UNCHANGED <<sceneVars, call, audio, ui>>

\* the video has its first frame of a live srcObject: every listener added
\* so far is called
LoadedData ==
    /\ NoDispatch(tracker)
    /\ tracker.fresh /\ tracker.srcObject \in tracker.live
    /\ tracker' = [tracker EXCEPT !.fresh = FALSE,
                                  !.runs = {[r EXCEPT !.pending = r.listening] : r \in @}]
    /\ UNCHANGED <<sceneVars, call, audio, ui>>

\* predictWebcam of one run, as a listener or as an animation-frame
\* callback.  detectForVideo on a closed landmarker is the library's
\* business: it throws, or it answers as before.  Otherwise the result goes
\* to the parent (setHandPos for the hand tracker) and the next frame is
\* requested.
PredictWebcam(r, threw, results) ==
    /\ r \in tracker.runs
    /\ r.landmarker # "none"
    /\ r.pending \/ (r.frame /\ NoDispatch(tracker))
    /\ threw => r.landmarker = "closed"
    /\ IF threw
       THEN /\ tracker' = [tracker EXCEPT !.runs = (@ \ {r}) \cup
                               {[r EXCEPT !.pending = FALSE, !.frame = FALSE]}]
            /\ UNCHANGED <<handPos, delivered, particles, particlesRef>>
       ELSE /\ tracker' = [tracker EXCEPT !.runs = (@ \ {r}) \cup
                               {[r EXCEPT !.pending = FALSE, !.frame = TRUE,
                                          !.stage = "detecting"]},
                                          !.revived = @ \/ r.landmarker = "closed"]
            /\ IF tracker.kind = "hand"
               THEN /\ handPos' = SetHandPos(handPos, predictWebcam(TRUE, results)[1])
                    /\ delivered' = [delivered EXCEPT !.hand = handPos']
                    /\ \E m \in {RenderParticles(particlesRef, particles)} :
                           particlesRef' = m.ref /\ particles' = m.array
               ELSE UNCHANGED <<handPos, delivered, particles, particlesRef>>
    /\ UNCHANGED <<variant, colorArray, songData, prevHandPos, dummy, matrices,
                   lights, colorPending, frames, last, call, audio, ui>>

\* the app at mount, with either tracker's component
InitCamera ==
    /\ variant = "classic"
    /\ particles = InitArray(0)
    /\ particlesRef = 0
    /\ colorArray = [i \in Indices |-> <<0, 0, 0>>]
    /\ songData = Null
    /\ handPos = NoHand
    /\ prevHandPos = Null
    /\ dummy = NewDummy
    /\ matrices = [i \in Indices |-> NoMatrix]
    /\ lights = [hand |-> [position |-> Zero3, intensity |-> 0], key |-> Zero3]
    /\ colorPending = TRUE
    /\ frames = 0
    /\ delivered = [hand |-> NoHand, mixed |-> FALSE, fresh |-> 0]
    /\ last = NoFrame
    /\ call = NoCall
    /\ audio = NoAudio
    /\ ui = NoUi
    /\ \E kind \in Trackers : tracker = [NoTracker EXCEPT !.kind = kind]

NextCamera ==
    \/ ToggleTracking
    \/ \E r \in tracker.runs : ModelLoaded(r)
    \/ \E r \in tracker.runs : ModelFailed(r)
    \/ \E r \in tracker.runs : CameraGranted(r)
    \/ \E r \in tracker.runs : CameraDenied(r)
    \/ LoadedData
    \/ \E r \in tracker.runs, threw \in BOOLEAN, results \in CameraDetections :
           PredictWebcam(r, threw, results)

SpecCamera == InitCamera /\ [][NextCamera]_vars

\* nothing of the tracker is left: no live stream, no open landmarker, no
\* callback requested
NothingLeft ==
    /\ tracker.live = {}
    /\ \A r \in tracker.runs : r.landmarker # "open" /\ ~r.frame /\ ~r.pending

\* C23 as stated: once tracking is switched off no camera stream is open,
\* no landmarker is unclosed and no detection callback is scheduled, however
\* the model load and the camera start interleave with the switch-off
OffLeavesNothing == ~tracker.enabled => NothingLeft

\* what does hold: a switch-off that finds its run detecting leaves nothing,
\* as long as every earlier switch-off did so too and no callback of a
\* closed landmarker has run on
OffWhileDetectingLeavesNothing ==
    (~tracker.enabled /\ ~tracker.early /\ ~tracker.revived) => NothingLeft

\* C24 as stated: whenever hand tracking is not enabled, the pointer the
\* scene is given has isDetected = false
PointerOffWhenDisabled ==
    (tracker.kind = "hand" /\ ~tracker.enabled) => ~handPos.isDetected

\* what does hold: the pointer is undetected until the first detection, and
\* so while tracking has never been switched on
PointerOffBeforeFirstEnable ==
    (tracker.kind = "hand" /\ tracker.started = 0) => handPos = NoHand

\* C26: while songData is null, a frame callback and a run of the colour
\* effect change nothing: no particle's position, velocity, basePosition or
\* phase, no entry of the colour array, no transform handed to the renderer
NoSongNoChange ==
    [][(songData = Null /\ (frames' # frames \/ colorPending' # colorPending))
          => /\ particles' = particles
             /\ colorArray' = colorArray
             /\ matrices' = matrices
             /\ dummy' = dummy
             /\ lights' = lights]_vars

\* the colour effect of the mount and every frame of the run have happened
\* with no song, and the particles are away from their bases as created
FramesRanWithoutSong ==
    /\ songData = Null
    /\ frames = MaxFrames
    /\ ~colorPending
    /\ \E i \in Indices : particles[i].x # particles[i].baseX
    /\ \A i \in Indices : matrices[i] = NoMatrix /\ colorArray[i] = <<0, 0, 0>>

(***************************************************************************)
(* The arpeggiator's scheduler, statement by statement                     *)
(***************************************************************************)

MaxCallbacks == 3    \* animation-frame callbacks of one loop in one behaviour
MaxNotes == 4        \* the count of scheduled notes is kept up to this

\* the number a JSON text such as 1e999 parses to; times are in units of
\* 1 / Scale seconds and stay far below it
Infinity == 2000000000

\* tempo values JSON.parse can put into SongData.tempo: the schema's range
\* and numbers outside it
Tempos == {-60, 0, 60, 79, 80, 140, Infinity}

\* a / b on JavaScript numbers, a > 0 finite: x / 0 is Infinity, x / Infinity
\* is 0
Quotient(a, b) ==
    IF b = 0 THEN Infinity
    ELSE IF b = Infinity THEN 0
    ELSE IF b > 0 THEN a \div b
    ELSE -(a \div (-b))

\* a + b with Infinity
Plus(a, b) == IF a = Infinity \/ b = Infinity THEN Infinity ELSE a + b

\* const interval = 60 / tempo; const noteTime = tempo < 80 ? interval / 2 :
\* interval
NoteTime(tempo) ==
    LET interval == Quotient(60 * Scale, tempo)
    IN  IF tempo < 80
        THEN (IF interval = Infinity THEN Infinity ELSE Quotient(interval, 2))
        ELSE interval

\* ctx.currentTime when play() is called, and the time between two callbacks
StartTimes == {0, 1000}
FrameGaps == {16, 450}

\* startPianoArpeggiator(chord, tempo) with a context: the first run of
\* scheduler() is the call at the end of the function and stands before its
\* while
StartScheduler(tempo, now) ==
    /\ call = NoCall
    /\ call' = [fn |-> "scheduler", tempo |-> tempo, noteTime |-> NoteTime(tempo),
                nextNoteTime |-> now + 500, currentTime |-> now,
                pc |-> "while", callbacks |-> 0, notes |-> 0]
    /\ UNCHANGED <<sceneVars, audio, ui, tracker>>

\* the browser calls scheduler(): it returns at once when the engine has
\* been stopped, else it stands before its while
SchedulerEnter(gap, playing) ==
    /\ call # NoCall /\ call.fn = "scheduler" /\ call.pc = "frame"
    /\ call.callbacks < MaxCallbacks
    /\ call' = [call EXCEPT !.currentTime = @ + gap,
                            !.callbacks = @ + 1,
                            !.pc = IF playing THEN "while" ELSE "returned"]
    /\ UNCHANGED <<sceneVars, audio, ui, tracker>>

\* while (nextNoteTime < this.ctx.currentTime + 0.1): into the body, or past
\* the loop to requestAnimationFrame(scheduler)
WhileTest ==
    /\ call # NoCall /\ call.fn = "scheduler" /\ call.pc = "while"
    /\ call' = [call EXCEPT !.pc = IF call.nextNoteTime # Infinity
                                      /\ call.nextNoteTime < call.currentTime + 100
                                   THEN "body" ELSE "frame"]
    /\ UNCHANGED <<sceneVars, audio, ui, tracker>>

\* the body: playPianoNote(freq, nextNoteTime, ...) and nextNoteTime +=
\* noteTime.  The Web Audio calls made with a negative time throw a
\* RangeError, which ends the callback without a new frame request.
WhileBody ==
    /\ call # NoCall /\ call.fn = "scheduler" /\ call.pc = "body"
    /\ call' = IF call.nextNoteTime < 0
               THEN [call EXCEPT !.pc = "threw"]
               ELSE [call EXCEPT !.notes = IF @ < MaxNotes THEN @ + 1 ELSE @,
                                 !.nextNoteTime = Plus(@, call.noteTime),
                                 !.pc = "while"]
    /\ UNCHANGED <<sceneVars, audio, ui, tracker>>

NextScheduler ==
    \/ \E tempo \in Tempos, now \in StartTimes : StartScheduler(tempo, now)
    \/ \E gap \in FrameGaps, playing \in BOOLEAN : SchedulerEnter(gap, playing)
    \/ WhileTest
    \/ WhileBody

\* a callback that has begun is run to its end by the JavaScript engine
SpecScheduler ==
    Init /\ [][NextScheduler]_vars /\ WF_call(WhileTest) /\ WF_call(WhileBody)

InScheduler == call # NoCall /\ call.fn = "scheduler" /\ call.pc \in {"while", "body"}

\* C27 as stated: every invocation of the scheduler callback terminates
\* after finitely many notes, whatever tempo the song data carries
SchedulerTerminates == InScheduler ~> ~InScheduler

\* what does hold: the invocation terminates whenever the note length is
\* not zero; with a negative one it ends by the exception
SchedulerTerminatesWhenTimeAdvances ==
    (InScheduler /\ call.noteTime # 0) ~> ~InScheduler

====
